---- MODULE Spec2Model ----
(***************************************************************************)
(* A model of the ArcScript core: the parser (src/src/parser.rs) reading   *)
(* the token stream of the lexer (src/src/lexer.rs), and the tree-walking  *)
(* interpreter (src/src/interpreter.rs) over the AST (src/src/ast.rs),     *)
(* driven by the host of src/src/main.rs.                                  *)
(*                                                                         *)
(* Option<T> is a sequence of length 0 (None) or 1 (Some).  A HashMap is a *)
(* function whose DOMAIN is the set of its keys.  A Float is an exact      *)
(* rational n/d in lowest terms with d > 0.                                *)
(***************************************************************************)
EXTENDS Integers, Sequences, FiniteSets, TLC

VARIABLES
    env,      \* Interpreter.env
    out,      \* what print/println wrote to standard output, in order
    program,  \* the Program given to the running (or last) eval_program call
    pc,       \* index in program.body of the next top-level statement
    status,   \* "idle", "running", "ok", "err" (RuntimeError), "parse_err"
    err,      \* message of the RuntimeError of the last eval_program call
    runs,     \* number of inputs the host has submitted so far
    src,      \* Lexer.source of the parse in progress, as a sequence of lexemes
    pos,      \* Lexer.pos: number of lexemes already read
    current,  \* Parser.current
    errors,   \* Parser.errors
    body,     \* the local `body` of parse_program
    pstatus,  \* "idle", "parsing", "ok", "errors", "panic"
    consumeDef \* which of the two definitions of Parser::consume the build holds

vars == <<env, out, program, pc, status, err, runs,
          src, pos, current, errors, body, pstatus, consumeDef>>

interpVars == <<env, out, program, pc, status, err, runs>>
parserVars == <<src, pos, current, errors, body, pstatus, consumeDef>>

(***************************************************************************)
(* Bounds of the model.                                                    *)
(***************************************************************************)
MaxLoopIter == 3    \* iterations a while loop is followed for
MaxSrcLen == 4      \* lexemes in an enumerated source text

(***************************************************************************)
(* Option and HashMap.                                                     *)
(***************************************************************************)
\* `let v = ...;` followed by the code F that reads v
Let(v, F(_)) == F(v)

None == <<>>
Some(x) == <<x>>
IsSome(o) == Len(o) = 1
Unwrap(o) == o[1]

EmptyMap == <<>>
MapInsert(m, k, x) == [j \in (DOMAIN m) \cup {k} |-> IF j = k THEN x ELSE m[j]]
\* a HashMap::get that finds no key
MapMiss(m, k) == None
MapGet(m, k) == IF k \in DOMAIN m THEN Some(m[k]) ELSE None

(***************************************************************************)
(* Value (interpreter.rs 41-54).                                           *)
(***************************************************************************)
RECURSIVE Gcd(_, _)
Gcd(a, b) == IF b = 0 THEN a ELSE Gcd(b, a % b)
Abs(i) == IF i < 0 THEN -i ELSE i

VInt(i) == [tag |-> "Int", v |-> i]
\* the rational n/d, d # 0, in lowest terms with a positive denominator
VFloat(n, d) ==
    Let(IF d < 0 THEN -1 ELSE 1, LAMBDA s :
        Let(Gcd(Abs(n), Abs(d)), LAMBDA g :
        [tag |-> "Float", n |-> (s * n) \div g, d |-> Abs(d) \div g]))
VBool(b) == [tag |-> "Bool", v |-> b]
VString(s) == [tag |-> "String", v |-> s]
VFunction(decl, closure) == [tag |-> "Function", decl |-> decl, closure |-> closure]
VTable(m) == [tag |-> "Table", map |-> m]
VBuiltinFunction(name) == [tag |-> "BuiltinFunction", name |-> name]
VNil == [tag |-> "Nil"]

(***************************************************************************)
(* Environment (interpreter.rs 56-84): a HashMap and an owned (boxed,      *)
(* value-cloned) parent.                                                   *)
(***************************************************************************)
Environment_new == [values |-> EmptyMap, parent |-> None]
with_parent(parent) == [values |-> EmptyMap, parent |-> parent]
define(e, name, value) == [e EXCEPT !.values = MapInsert(e.values, name, value)]

\* a lookup that prefers the outermost binding of the chain
RECURSIVE GetOutermost(_, _)
GetOutermost(e, name) ==
    IF IsSome(e.parent) /\ IsSome(GetOutermost(Unwrap(e.parent), name))
    THEN GetOutermost(Unwrap(e.parent), name)
    ELSE IF name \in DOMAIN e.values THEN Some(e.values[name])
    ELSE None

RECURSIVE get(_, _)
get(e, name) ==
    IF name \in DOMAIN e.values THEN Some(e.values[name])
    ELSE IF IsSome(e.parent) THEN get(Unwrap(e.parent), name)
    ELSE None

BuiltinNames ==
    <<"print", "println", "type", "len", "str", "int", "float",
      "abs", "min", "max", "floor", "ceil", "round", "sqrt", "pow",
      "substring", "contains", "toUpper", "toLower">>

RECURSIVE register_from(_, _)
register_from(e, i) ==
    IF i > Len(BuiltinNames) THEN e
    ELSE register_from(define(e, BuiltinNames[i], VBuiltinFunction(BuiltinNames[i])), i + 1)

register_builtins(e) == register_from(e, 1)

Interpreter_new == register_builtins(Environment_new)

get_global(e, name) == get(e, name)

(***************************************************************************)
(* AST (ast.rs).                                                           *)
(***************************************************************************)
Lit_Int(i) == [tag |-> "Int", v |-> i]
Lit_Float(n, d) == [tag |-> "Float", n |-> n, d |-> d]
Lit_Bool(b) == [tag |-> "Bool", v |-> b]
Lit_String(s) == [tag |-> "String", v |-> s]
Lit_Nil == [tag |-> "Nil"]

Expr_Literal(lit) == [kind |-> "Literal", lit |-> lit]
Expr_Ident(name) == [kind |-> "Ident", name |-> name]
Expr_Unary(op, e) == [kind |-> "Unary", op |-> op, expr |-> e]
Expr_Binary(l, op, r) == [kind |-> "Binary", left |-> l, op |-> op, right |-> r]
Expr_Call(callee, args) == [kind |-> "Call", callee |-> callee, args |-> args]
Expr_Member(object, field) == [kind |-> "Member", object |-> object, field |-> field]
Expr_Index(object, index) == [kind |-> "Index", object |-> object, index |-> index]
Expr_TableLiteral(fields) == [kind |-> "TableLiteral", fields |-> fields]

TableField_KeyValue(key, value) == [kind |-> "KeyValue", key |-> key, value |-> value]
TableField_Value(e) == [kind |-> "Value", value |-> e]

Param(name) == [name |-> name]
FuncDecl(name, params, fbody) == [name |-> name, params |-> params, body |-> fbody]
EventDecl(name, params, fbody) == [name |-> name, params |-> params, body |-> fbody]
ObjectDecl(name, members) == [name |-> name, members |-> members]
ObjectMember_Var(stmt) == [kind |-> "Var", stmt |-> stmt]
ObjectMember_Method(func) == [kind |-> "Method", func |-> func]
ObjectMember_Event(event) == [kind |-> "Event", event |-> event]

Stmt_VarDecl(name, init) == [kind |-> "VarDecl", name |-> name, init |-> init]
Stmt_Assignment(name, value) == [kind |-> "Assignment", name |-> name, value |-> value]
Stmt_Expr(e) == [kind |-> "Expr", expr |-> e]
Stmt_Block(stmts) == [kind |-> "Block", stmts |-> stmts]
Stmt_If(condition, then_branch, elif_branches, else_branch) ==
    [kind |-> "If", condition |-> condition, then_branch |-> then_branch,
     elif_branches |-> elif_branches, else_branch |-> else_branch]
Stmt_While(condition, wbody) == [kind |-> "While", condition |-> condition, body |-> wbody]
Stmt_For(var_name, start, end, step, fbody) ==
    [kind |-> "For", var_name |-> var_name, start |-> start, end |-> end,
     step |-> step, body |-> fbody]
Stmt_Break == [kind |-> "Break"]
Stmt_Continue == [kind |-> "Continue"]
Stmt_Return(expr_opt) == [kind |-> "Return", expr |-> expr_opt]
Stmt_FuncDecl(func) == [kind |-> "FuncDecl", func |-> func]
Stmt_ObjectDecl(obj) == [kind |-> "ObjectDecl", obj |-> obj]

Program(stmts) == [body |-> stmts]

(***************************************************************************)
(* Result<Value, RuntimeError> of the operators that do not touch the      *)
(* interpreter (they take &self and read nothing of it).                   *)
(***************************************************************************)
Ok(v) == [ok |-> TRUE, v |-> v, err |-> ""]
Err(msg) == [ok |-> FALSE, v |-> VNil, err |-> msg]

\* Rust's integer `/` and `%` truncate toward zero; b # 0
TruncDiv(a, b) ==
    Let(Abs(a) \div Abs(b), LAMBDA q :
        IF (a < 0) = (b < 0) THEN q ELSE -q)
TruncRem(a, b) == a - b * TruncDiv(a, b)

\* `i as f64`
AsFloat(i) == VFloat(i, 1)
IsZeroF(f) == f.n = 0
FAdd(a, b) == VFloat(a.n * b.d + b.n * a.d, a.d * b.d)
FSub(a, b) == VFloat(a.n * b.d - b.n * a.d, a.d * b.d)
FMul(a, b) == VFloat(a.n * b.n, a.d * b.d)
FDiv(a, b) == VFloat(a.n * b.d, a.d * b.n)
\* f64 `%` is fmod: a - trunc(a / b) * b
FRem(a, b) == FSub(a, FMul(AsFloat(TruncDiv(a.n * b.d, a.d * b.n)), b))
FLess(a, b) == a.n * b.d < b.n * a.d

eval_literal(lit) ==
    CASE lit.tag = "Int" -> VInt(lit.v)
      [] lit.tag = "Float" -> VFloat(lit.n, lit.d)
      [] lit.tag = "Bool" -> VBool(lit.v)
      [] lit.tag = "String" -> VString(lit.v)
      [] lit.tag = "Nil" -> VNil

truthy(v) ==
    CASE v.tag = "Bool" -> v.v
      [] v.tag = "Nil" -> FALSE
      [] OTHER -> TRUE

\* a `+` that accepts every pair of operands
AddAccepts(left, right) == Ok(left)
add(left, right) ==
    CASE left.tag = "Int" /\ right.tag = "Int" -> Ok(VInt(left.v + right.v))
      [] left.tag = "Float" /\ right.tag = "Float" -> Ok(FAdd(left, right))
      [] left.tag = "Int" /\ right.tag = "Float" -> Ok(FAdd(AsFloat(left.v), right))
      [] left.tag = "Float" /\ right.tag = "Int" -> Ok(FAdd(left, AsFloat(right.v)))
      [] left.tag = "String" /\ right.tag = "String" -> Ok(VString(left.v \o right.v))
      [] OTHER -> Err("type error: cannot add the given operands")

sub(left, right) ==
    CASE left.tag = "Int" /\ right.tag = "Int" -> Ok(VInt(left.v - right.v))
      [] left.tag = "Float" /\ right.tag = "Float" -> Ok(FSub(left, right))
      [] left.tag = "Int" /\ right.tag = "Float" -> Ok(FSub(AsFloat(left.v), right))
      [] left.tag = "Float" /\ right.tag = "Int" -> Ok(FSub(left, AsFloat(right.v)))
      [] OTHER -> Err("type error: cannot subtract the given operands")

mul(left, right) ==
    CASE left.tag = "Int" /\ right.tag = "Int" -> Ok(VInt(left.v * right.v))
      [] left.tag = "Float" /\ right.tag = "Float" -> Ok(FMul(left, right))
      [] left.tag = "Int" /\ right.tag = "Float" -> Ok(FMul(AsFloat(left.v), right))
      [] left.tag = "Float" /\ right.tag = "Int" -> Ok(FMul(left, AsFloat(right.v)))
      [] OTHER -> Err("type error: cannot multiply the given operands")

div(left, right) ==
    CASE left.tag = "Int" /\ right.tag = "Int" ->
            IF right.v = 0 THEN Err("division by zero")
            ELSE Ok(VInt(TruncDiv(left.v, right.v)))
      [] left.tag = "Float" /\ right.tag = "Float" ->
            IF IsZeroF(right) THEN Err("division by zero") ELSE Ok(FDiv(left, right))
      [] left.tag = "Int" /\ right.tag = "Float" ->
            IF IsZeroF(right) THEN Err("division by zero")
            ELSE Ok(FDiv(AsFloat(left.v), right))
      [] left.tag = "Float" /\ right.tag = "Int" ->
            IF right.v = 0 THEN Err("division by zero")
            ELSE Ok(FDiv(left, AsFloat(right.v)))
      [] OTHER -> Err("type error: cannot divide the given operands")

modulo(left, right) ==
    CASE left.tag = "Int" /\ right.tag = "Int" ->
            IF right.v = 0 THEN Err("modulo by zero")
            ELSE Ok(VInt(TruncRem(left.v, right.v)))
      [] left.tag = "Float" /\ right.tag = "Float" ->
            IF IsZeroF(right) THEN Err("modulo by zero") ELSE Ok(FRem(left, right))
      [] left.tag = "Int" /\ right.tag = "Float" ->
            IF IsZeroF(right) THEN Err("modulo by zero")
            ELSE Ok(FRem(AsFloat(left.v), right))
      [] left.tag = "Float" /\ right.tag = "Int" ->
            IF right.v = 0 THEN Err("modulo by zero")
            ELSE Ok(FRem(left, AsFloat(right.v)))
      [] OTHER -> Err("type error: cannot apply modulo to the given operands")

eq(left, right) ==
    CASE left.tag = "Int" /\ right.tag = "Int" -> left.v = right.v
      [] left.tag = "Float" /\ right.tag = "Float" -> left.n = right.n /\ left.d = right.d
      [] left.tag = "Bool" /\ right.tag = "Bool" -> left.v = right.v
      [] left.tag = "String" /\ right.tag = "String" -> left.v = right.v
      [] left.tag = "Nil" /\ right.tag = "Nil" -> TRUE
      [] OTHER -> FALSE

\* both operands coerced to f64; f is "<", "<=", ">" or ">="
cmp(f, left, right) ==
    IF left.tag \in {"Int", "Float"} /\ right.tag \in {"Int", "Float"}
    THEN Let(IF left.tag = "Int" THEN AsFloat(left.v) ELSE left, LAMBDA a :
             Let(IF right.tag = "Int" THEN AsFloat(right.v) ELSE right, LAMBDA b :
             Ok(VBool(CASE f = "<" -> FLess(a, b)
                        [] f = "<=" -> ~FLess(b, a)
                        [] f = ">" -> FLess(b, a)
                        [] f = ">=" -> ~FLess(a, b)))))
    ELSE Err("type error: cannot compare given operands")

apply_binary(op, left, right) ==
    CASE op = "Add" -> add(left, right)
      [] op = "Sub" -> sub(left, right)
      [] op = "Mul" -> mul(left, right)
      [] op = "Div" -> div(left, right)
      [] op = "Mod" -> modulo(left, right)
      [] op = "Equal" -> Ok(VBool(eq(left, right)))
      [] op = "NotEqual" -> Ok(VBool(~eq(left, right)))
      [] op = "Less" -> cmp("<", left, right)
      [] op = "LessEqual" -> cmp("<=", left, right)
      [] op = "Greater" -> cmp(">", left, right)
      [] op = "GreaterEqual" -> cmp(">=", left, right)
      [] op = "And" -> Ok(VBool(truthy(left) /\ truthy(right)))
      [] op = "Or" -> Ok(VBool(truthy(left) \/ truthy(right)))

(***************************************************************************)
(* The interpreter proper.  An evaluation threads the interpreter's        *)
(* mutable state I = [env, out] (self.env and standard output) and returns *)
(* it with the Result: [I, ok, v, err].  For eval_expr v is the Value, for *)
(* eval_stmt it is the Option<Value> unwind signal.                        *)
(***************************************************************************)
R_Ok(I, v) == [I |-> I, ok |-> TRUE, v |-> v, err |-> ""]
R_Err(I, msg) == [I |-> I, ok |-> FALSE, v |-> VNil, err |-> msg]
R_Of(I, r) == [I |-> I, ok |-> r.ok, v |-> r.v, err |-> r.err]
Write(I, text) == [I EXCEPT !.out = Append(I.out, text)]

RECURSIVE FracDigits(_, _, _)
FracDigits(r, d, k) ==
    IF r = 0 \/ k = 0 THEN ""
    ELSE ToString((r * 10) \div d) \o FracDigits((r * 10) % d, d, k - 1)

\* f64::to_string, for the rationals with a short decimal expansion
FloatToString(f) ==
    Let(Abs(f.n), LAMBDA a :
        Let(ToString(a \div f.d), LAMBDA whole :
        Let(FracDigits(a % f.d, f.d, 16), LAMBDA frac :
        (IF f.n < 0 THEN "-" ELSE "") \o whole \o (IF frac = "" THEN "" ELSE "." \o frac))))

value_to_string(val) ==
    CASE val.tag = "Int" -> ToString(val.v)
      [] val.tag = "Float" -> FloatToString(val)
      [] val.tag = "Bool" -> IF val.v THEN "true" ELSE "false"
      [] val.tag = "String" -> val.v
      [] val.tag = "Function" -> "<function>"
      [] val.tag = "Table" -> "<table>"
      [] val.tag = "BuiltinFunction" -> "<builtin: " \o val.name \o ">"
      [] val.tag = "Nil" -> "nil"

type_name(val) ==
    CASE val.tag = "Int" -> "int"
      [] val.tag = "Float" -> "float"
      [] val.tag = "Bool" -> "bool"
      [] val.tag = "String" -> "string"
      [] val.tag = "Function" -> "function"
      [] val.tag = "Table" -> "table"
      [] val.tag = "BuiltinFunction" -> "builtin_function"
      [] val.tag = "Nil" -> "nil"

Digits == <<"0", "1", "2", "3", "4", "5", "6", "7", "8", "9">>
IsDigit(c) == \E k \in 1..10 : Digits[k] = c
DigitVal(c) == (CHOOSE k \in 1..10 : Digits[k] = c) - 1

RECURSIVE ParseDigits(_, _, _)
\* the number written by the digits s[i..], after the prefix worth acc; None if a
\* character is no digit
ParseDigits(s, i, acc) ==
    IF i > Len(s) THEN Some(acc)
    ELSE IF IsDigit(SubSeq(s, i, i)) THEN ParseDigits(s, i + 1, acc * 10 + DigitVal(SubSeq(s, i, i)))
    ELSE None

\* str::parse::<i64>: an optional sign and at least one digit
ParseI64(s) ==
    Let(Len(s) >= 1 /\ SubSeq(s, 1, 1) \in {"+", "-"}, LAMBDA signed :
        Let(IF signed THEN 2 ELSE 1, LAMBDA first :
        Let(IF first > Len(s) THEN None ELSE ParseDigits(s, first, 0), LAMBDA mag :
        IF ~IsSome(mag) THEN None
        ELSE IF signed /\ SubSeq(s, 1, 1) = "-" THEN Some(-Unwrap(mag)) ELSE mag)))

\* a max that yields its second operand
SecondOperand(a, b) == b
Max(a, b) == IF a >= b THEN a ELSE b
Min(a, b) == IF a <= b THEN a ELSE b
Contains(s, needle) == \E i \in 1..(Len(s) + 1) : SubSeq(s, i, i + Len(needle) - 1) = needle
FloorF(f) == f.n \div f.d
CeilF(f) == -((-f.n) \div f.d)
\* f64::round: half away from zero
RoundF(f) == (IF f.n < 0 THEN -1 ELSE 1) * ((2 * Abs(f.n) + f.d) \div (2 * f.d))
\* `f as i64`
TruncF(f) == TruncDiv(f.n, f.d)

\* a declaration that captures no Environment
CaptureNothing(e) == None
\* what eval_stmt(FuncDecl) and the object methods capture (608, 631)
capture_closure(e) == Some(e)

\* a call that chains to the caller's Environment whatever was captured
DynamicParent(closure, cur) == Some(cur)
\* the parent of a call Environment (160-165)
call_parent(closure, cur) == IF IsSome(closure) THEN closure ELSE Some(cur)

\* a Block that leaves its own Environment current
KeepBlockEnv(saved_env, cur) == cur
\* the Environment a Block leaves behind on each of its exits (493, 495, 499)
block_restore(saved_env, cur) == saved_env

\* an object declaration that enters no member in its table
NoMembers(I, members, i, table) == R_Ok(I, VTable(table))

\* a call that binds no parameter
BindNothing(I, params, args, i, call_env) ==
    [I |-> I, ok |-> TRUE, v |-> call_env, err |-> ""]

RECURSIVE Interpreter(_, _)
RECURSIVE eval_expr(_, _), eval_call(_, _, _), call_builtin(_, _, _),
          bind_params(_, _, _, _, _), print_args(_, _, _),
          eval_table_fields(_, _, _, _), eval_stmt(_, _),
          eval_function_body(_, _), eval_body_stmts(_, _, _),
          eval_block_stmts(_, _, _, _), eval_elifs(_, _, _, _),
          eval_while(_, _, _), eval_for(_, _, _, _, _, _),
          eval_object_members(_, _, _, _)

eval_expr(I, e) ==
    CASE e.kind = "Literal" -> R_Ok(I, eval_literal(e.lit))
      [] e.kind = "Ident" ->
            Let(get(I.env, e.name), LAMBDA got :
                IF IsSome(got) THEN R_Ok(I, Unwrap(got))
                ELSE R_Err(I, "Undefined identifier '" \o e.name \o "'"))
      [] e.kind = "Unary" ->
            Let(eval_expr(I, e.expr), LAMBDA r :
                IF ~r.ok THEN r
                ELSE IF e.op = "Negate"
                THEN CASE r.v.tag = "Int" -> R_Ok(r.I, VInt(-r.v.v))
                       [] r.v.tag = "Float" -> R_Ok(r.I, VFloat(-r.v.n, r.v.d))
                       [] OTHER -> R_Err(r.I, "type error: unary - on non-number")
                ELSE R_Ok(r.I, VBool(~truthy(r.v))))
      [] e.kind = "Binary" ->
            Let(eval_expr(I, e.left), LAMBDA l :
                IF ~l.ok THEN l
                ELSE Let(eval_expr(l.I, e.right), LAMBDA r :
                         IF ~r.ok THEN r
                         ELSE R_Of(r.I, apply_binary(e.op, l.v, r.v))))
      [] e.kind = "Call" -> Interpreter("eval_call", <<I, e.callee, e.args>>)
      [] e.kind = "Member" ->
            Let(eval_expr(I, e.object), LAMBDA o :
                IF ~o.ok THEN o
                ELSE IF o.v.tag = "Table"
                THEN Let(MapGet(o.v.map, e.field), LAMBDA got :
                         R_Ok(o.I, IF IsSome(got) THEN Unwrap(got) ELSE VNil))
                ELSE R_Err(o.I, "cannot access member '" \o e.field \o "' on non-table"))
      [] e.kind = "Index" ->
            Let(eval_expr(I, e.object), LAMBDA o :
                IF ~o.ok THEN o
                ELSE Let(eval_expr(o.I, e.index), LAMBDA x :
                         IF ~x.ok THEN x
                         ELSE IF o.v.tag = "Table" /\ x.v.tag = "String"
                         THEN Let(MapGet(o.v.map, x.v.v), LAMBDA got :
                                  R_Ok(x.I, IF IsSome(got) THEN Unwrap(got) ELSE VNil))
                         ELSE IF o.v.tag = "Table"
                         THEN R_Err(x.I, "table index must be a string")
                         ELSE R_Err(x.I, "cannot index non-table")))
      [] e.kind = "TableLiteral" -> Interpreter("eval_table_fields", <<I, e.fields, 1, EmptyMap>>)

\* the loop of Expr::TableLiteral; idx is the 1-based position, the key of a bare
\* entry is its 0-based position
eval_table_fields(I, fields, idx, map) ==
    IF idx > Len(fields) THEN R_Ok(I, VTable(map))
    ELSE Let(fields[idx], LAMBDA field :
             Let(Interpreter("eval_expr", <<I, field.value>>), LAMBDA r :
             IF ~r.ok THEN r
             ELSE eval_table_fields(r.I, fields, idx + 1,
                     MapInsert(map, IF field.kind = "KeyValue" THEN field.key
                                    ELSE ToString(idx - 1), r.v))))

\* the parameter loop of eval_call (169-176); i is 1-based
bind_params(I, params, args, i, call_env) ==
    IF i > Len(params) THEN [I |-> I, ok |-> TRUE, v |-> call_env, err |-> ""]
    ELSE IF i <= Len(args)
    THEN Let(Interpreter("eval_expr", <<I, args[i]>>), LAMBDA r :
             IF ~r.ok THEN r
             ELSE bind_params(r.I, params, args, i + 1, define(call_env, params[i].name, r.v)))
    ELSE bind_params(I, params, args, i + 1, define(call_env, params[i].name, VNil))

eval_call(I, callee, args) ==
    Let(Interpreter("eval_expr", <<I, callee>>), LAMBDA c :
        IF ~c.ok THEN c
        ELSE IF c.v.tag = "BuiltinFunction" THEN Interpreter("call_builtin", <<c.I, c.v.name, args>>)
        ELSE IF c.v.tag # "Function" THEN R_Err(c.I, "attempt to call non-function")
        ELSE Let(c.v.decl, LAMBDA func :
                 Let(call_parent(c.v.closure, c.I.env), LAMBDA parent :
                 Let(Interpreter("bind_params", <<c.I, func.params, args, 1, with_parent(parent)>>), LAMBDA b :
                 IF ~b.ok THEN b
                 ELSE Let(b.I.env, LAMBDA saved_env :
                          Let(Interpreter("eval_function_body", <<[b.I EXCEPT !.env = b.v], func.body>>), LAMBDA r :
                          IF ~r.ok THEN r
                          ELSE R_Ok([r.I EXCEPT !.env = saved_env],
                                    IF IsSome(r.v) THEN Unwrap(r.v) ELSE VNil)))))))

\* the argument loop of print and println; i is 1-based
print_args(I, args, i) ==
    IF i > Len(args) THEN R_Ok(I, VNil)
    ELSE Let(IF i > 1 THEN Write(I, " ") ELSE I, LAMBDA I1 :
             Let(Interpreter("eval_expr", <<I1, args[i]>>), LAMBDA r :
             IF ~r.ok THEN r
             ELSE print_args(Write(r.I, value_to_string(r.v)), args, i + 1)))

\* sqrt, pow, toUpper and toLower are registered but not modelled: no input of the
\* model calls them
call_builtin(I, name, args) ==
    CASE name = "print" -> Interpreter("print_args", <<I, args, 1>>)
      [] name = "println" ->
            Let(Interpreter("print_args", <<I, args, 1>>), LAMBDA r :
                IF ~r.ok THEN r ELSE R_Ok(Write(r.I, "\n"), VNil))
      [] name \in {"type", "len", "str", "int", "float", "abs", "floor", "ceil", "round"} ->
            IF Len(args) = 0 THEN R_Err(I, name \o "() requires 1 argument")
            ELSE Let(Interpreter("eval_expr", <<I, args[1]>>), LAMBDA r :
                     Let(r.v, LAMBDA val :
                     IF ~r.ok THEN r
                     ELSE CASE name = "type" -> R_Ok(r.I, VString(type_name(val)))
                            [] name = "len" ->
                                 CASE val.tag = "String" -> R_Ok(r.I, VInt(Len(val.v)))
                                   [] val.tag = "Table" ->
                                        R_Ok(r.I, VInt(Cardinality(DOMAIN val.map)))
                                   [] OTHER -> R_Err(r.I, "len() requires string or table argument")
                            [] name = "str" -> R_Ok(r.I, VString(value_to_string(val)))
                            [] name = "int" ->
                                 CASE val.tag = "Int" -> R_Ok(r.I, val)
                                   [] val.tag = "Float" -> R_Ok(r.I, VInt(TruncF(val)))
                                   [] val.tag = "String" ->
                                        IF IsSome(ParseI64(val.v))
                                        THEN R_Ok(r.I, VInt(Unwrap(ParseI64(val.v))))
                                        ELSE R_Err(r.I, "cannot convert string to int")
                                   [] val.tag = "Bool" -> R_Ok(r.I, VInt(IF val.v THEN 1 ELSE 0))
                                   [] OTHER -> R_Err(r.I, "cannot convert to int")
                            [] name = "float" ->
                                 CASE val.tag = "Int" -> R_Ok(r.I, AsFloat(val.v))
                                   [] val.tag = "Float" -> R_Ok(r.I, val)
                                   [] val.tag = "String" ->
                                        \* only integer numerals are modelled
                                        IF IsSome(ParseI64(val.v))
                                        THEN R_Ok(r.I, AsFloat(Unwrap(ParseI64(val.v))))
                                        ELSE R_Err(r.I, "cannot convert string to float")
                                   [] OTHER -> R_Err(r.I, "cannot convert to float")
                            [] name = "abs" ->
                                 CASE val.tag = "Int" -> R_Ok(r.I, VInt(Abs(val.v)))
                                   [] val.tag = "Float" -> R_Ok(r.I, VFloat(Abs(val.n), val.d))
                                   [] OTHER -> R_Err(r.I, "abs() requires numeric argument")
                            [] name \in {"floor", "ceil", "round"} ->
                                 CASE val.tag = "Float" ->
                                        R_Ok(r.I, VInt(CASE name = "floor" -> FloorF(val)
                                                         [] name = "ceil" -> CeilF(val)
                                                         [] name = "round" -> RoundF(val)))
                                   [] val.tag = "Int" -> R_Ok(r.I, val)
                                   [] OTHER -> R_Err(r.I, name \o "() requires numeric argument")))
      [] name \in {"min", "max"} ->
            IF Len(args) < 2 THEN R_Err(I, name \o "() requires 2 arguments")
            ELSE Let(Interpreter("eval_expr", <<I, args[1]>>), LAMBDA a :
                     IF ~a.ok THEN a
                     ELSE Let(Interpreter("eval_expr", <<a.I, args[2]>>), LAMBDA b :
                              IF ~b.ok THEN b
                              ELSE IF a.v.tag \in {"Int", "Float"} /\ b.v.tag \in {"Int", "Float"}
                              THEN IF a.v.tag = "Int" /\ b.v.tag = "Int"
                                   THEN R_Ok(b.I, VInt(IF name = "min" THEN Min(a.v.v, b.v.v)
                                                       ELSE Max(a.v.v, b.v.v)))
                                   ELSE Let(IF a.v.tag = "Int" THEN AsFloat(a.v.v) ELSE a.v, LAMBDA x :
                                            Let(IF b.v.tag = "Int" THEN AsFloat(b.v.v) ELSE b.v, LAMBDA y :
                                            R_Ok(b.I, IF name = "min"
                                                      THEN (IF FLess(y, x) THEN y ELSE x)
                                                      ELSE (IF FLess(x, y) THEN y ELSE x))))
                              ELSE R_Err(b.I, name \o "() requires numeric arguments")))
      [] name = "substring" ->
            IF Len(args) < 3
            THEN R_Err(I, "substring() requires 3 arguments (string, start, end)")
            ELSE Let(Interpreter("eval_expr", <<I, args[1]>>), LAMBDA a :
                     IF ~a.ok THEN a
                     ELSE Let(Interpreter("eval_expr", <<a.I, args[2]>>), LAMBDA b :
                              IF ~b.ok THEN b
                              ELSE Let(Interpreter("eval_expr", <<b.I, args[3]>>), LAMBDA c :
                                       IF ~c.ok THEN c
                                       ELSE IF a.v.tag = "String" /\ b.v.tag = "Int" /\ c.v.tag = "Int"
                                       THEN Let(Min(Max(c.v.v, 0), Len(a.v.v)), LAMBDA end :
                                                Let(Min(Max(b.v.v, 0), end), LAMBDA start :
                                                R_Ok(c.I, VString(SubSeq(a.v.v, start + 1, end)))))
                                       ELSE R_Err(c.I, "substring() requires (string, int, int)"))))
      [] name = "contains" ->
            IF Len(args) < 2 THEN R_Err(I, "contains() requires 2 arguments")
            ELSE Let(Interpreter("eval_expr", <<I, args[1]>>), LAMBDA a :
                     IF ~a.ok THEN a
                     ELSE Let(Interpreter("eval_expr", <<a.I, args[2]>>), LAMBDA b :
                              IF ~b.ok THEN b
                              ELSE IF a.v.tag = "String" /\ b.v.tag = "String"
                              THEN R_Ok(b.I, VBool(Contains(a.v.v, b.v.v)))
                              ELSE R_Err(b.I, "contains() requires two string arguments")))
      [] OTHER -> R_Err(I, "unknown built-in function: " \o name)

S_Ok(I, opt) == [I |-> I, ok |-> TRUE, v |-> opt, err |-> ""]
S_Err(I, msg) == [I |-> I, ok |-> FALSE, v |-> None, err |-> msg]
\* `?` applied to an eval_expr result inside eval_stmt
S_From(r) == S_Err(r.I, r.err)
SetEnv(I, e) == [I EXCEPT !.env = e]
LoopBoundReached == "while loop followed beyond MaxLoopIter iterations"

eval_function_body(I, fbody) ==
    IF fbody.kind = "Block" THEN Interpreter("eval_body_stmts", <<I, fbody.stmts, 1>>)
    ELSE Interpreter("eval_stmt", <<I, fbody>>)

\* the loop of eval_function_body (132-139)
eval_body_stmts(I, stmts, i) ==
    IF i > Len(stmts) THEN S_Ok(I, None)
    ELSE Let(Interpreter("eval_stmt", <<I, stmts[i]>>), LAMBDA r :
             IF ~r.ok THEN r
             ELSE IF IsSome(r.v) THEN r
             ELSE eval_body_stmts(r.I, stmts, i + 1))

\* the loop of Stmt::Block (491-500)
eval_block_stmts(I, stmts, i, saved_env) ==
    IF i > Len(stmts) THEN S_Ok(SetEnv(I, block_restore(saved_env, I.env)), None)
    ELSE Let(Interpreter("eval_stmt", <<I, stmts[i]>>), LAMBDA r :
             IF ~r.ok THEN S_Err(SetEnv(r.I, block_restore(saved_env, r.I.env)), r.err)
             ELSE IF IsSome(r.v) THEN S_Ok(SetEnv(r.I, block_restore(saved_env, r.I.env)), r.v)
             ELSE eval_block_stmts(r.I, stmts, i + 1, saved_env))

\* the else part of Stmt::If (506-518): the elif loop, then the else branch
eval_elifs(I, elifs, i, else_branch) ==
    IF i > Len(elifs)
    THEN IF IsSome(else_branch)
         THEN Let(Interpreter("eval_stmt", <<I, Unwrap(else_branch)>>), LAMBDA r :
                  IF ~r.ok THEN r ELSE S_Ok(r.I, None))
         ELSE S_Ok(I, None)
    ELSE Let(Interpreter("eval_expr", <<I, elifs[i][1]>>), LAMBDA c :
             IF ~c.ok THEN S_From(c)
             ELSE IF truthy(c.v)
             THEN Let(Interpreter("eval_stmt", <<c.I, elifs[i][2]>>), LAMBDA r :
                      IF ~r.ok THEN r ELSE S_Ok(r.I, None))
             ELSE eval_elifs(c.I, elifs, i + 1, else_branch))

\* the loop of Stmt::While (523-530); fuel bounds the iterations followed
eval_while(I, s, fuel) ==
    Let(Interpreter("eval_expr", <<I, s.condition>>), LAMBDA c :
        IF ~c.ok THEN S_From(c)
        ELSE IF ~truthy(c.v) THEN S_Ok(c.I, None)
        ELSE IF fuel = 0 THEN S_Err(c.I, LoopBoundReached)
        ELSE Let(Interpreter("eval_stmt", <<c.I, s.body>>), LAMBDA r :
                 IF ~r.ok THEN r
                 ELSE IF IsSome(r.v) /\ Unwrap(r.v).tag = "Nil" /\ s.body.kind = "Break"
                 THEN S_Ok(r.I, None)
                 ELSE IF IsSome(r.v) THEN r
                 ELSE eval_while(r.I, s, fuel - 1)))

\* the loop of Stmt::For (561-588)
eval_for(I, s, i, end_num, step_num, saved_env) ==
    Let(IF step_num > 0 THEN i <= end_num ELSE i >= end_num, LAMBDA should_continue :
        IF ~should_continue THEN S_Ok(SetEnv(I, saved_env), None)
        ELSE Let(Interpreter("eval_stmt", <<SetEnv(I, define(I.env, s.var_name, VInt(i))), s.body>>), LAMBDA r :
                 IF ~r.ok THEN r
                 ELSE IF IsSome(r.v) /\ s.body.kind = "Break"
                 THEN S_Ok(SetEnv(r.I, saved_env), None)
                 ELSE IF IsSome(r.v) THEN S_Ok(SetEnv(r.I, saved_env), r.v)
                 ELSE eval_for(r.I, s, i + step_num, end_num, step_num, saved_env)))

\* the member loop of Stmt::ObjectDecl (621-644)
eval_object_members(I, members, i, table) ==
    IF i > Len(members) THEN R_Ok(I, VTable(table))
    ELSE Let(members[i], LAMBDA member :
             CASE member.kind = "Var" ->
                    IF member.stmt.kind = "VarDecl"
                    THEN Let(Interpreter("eval_expr", <<I, member.stmt.init>>), LAMBDA r :
                             IF ~r.ok THEN r
                             ELSE eval_object_members(r.I, members, i + 1,
                                      MapInsert(table, member.stmt.name, r.v)))
                    ELSE eval_object_members(I, members, i + 1, table)
               [] member.kind = "Method" ->
                    eval_object_members(I, members, i + 1,
                        MapInsert(table, member.func.name,
                                  VFunction(member.func, capture_closure(I.env))))
               [] member.kind = "Event" -> eval_object_members(I, members, i + 1, table))

IsNumeric(v) == v.tag \in {"Int", "Float"}
\* `x as i64` of a loop bound that is already an Int or a Float
AsI64(v) == IF v.tag = "Int" THEN v.v ELSE TruncF(v)
ForKinds ==
    {<<"Int", "Int", "Int">>, <<"Float", "Float", "Float">>,
     <<"Int", "Float", "Int">>, <<"Float", "Int", "Float">>}

eval_stmt(I, s) ==
    CASE s.kind \in {"VarDecl", "Assignment"} ->
            Let(Interpreter("eval_expr", <<I, IF s.kind = "VarDecl" THEN s.init ELSE s.value>>), LAMBDA r :
                IF ~r.ok THEN S_From(r)
                ELSE S_Ok(SetEnv(r.I, define(r.I.env, s.name, r.v)), None))
      [] s.kind = "Expr" ->
            Let(Interpreter("eval_expr", <<I, s.expr>>), LAMBDA r :
                IF ~r.ok THEN S_From(r) ELSE S_Ok(r.I, None))
      [] s.kind = "Block" ->
            Interpreter("eval_block_stmts", <<SetEnv(I, with_parent(Some(I.env))), s.stmts, 1, I.env>>)
      [] s.kind = "If" ->
            Let(Interpreter("eval_expr", <<I, s.condition>>), LAMBDA c :
                IF ~c.ok THEN S_From(c)
                ELSE IF truthy(c.v)
                THEN Let(eval_stmt(c.I, s.then_branch), LAMBDA r :
                         IF ~r.ok THEN r ELSE S_Ok(r.I, None))
                ELSE Interpreter("eval_elifs", <<c.I, s.elif_branches, 1, s.else_branch>>))
      [] s.kind = "While" -> Interpreter("eval_while", <<I, s, MaxLoopIter>>)
      [] s.kind = "For" ->
            Let(Interpreter("eval_expr", <<I, s.start>>), LAMBDA a :
                IF ~a.ok THEN S_From(a)
                ELSE Let(Interpreter("eval_expr", <<a.I, s.end>>), LAMBDA b :
                         IF ~b.ok THEN S_From(b)
                         ELSE Let(IF IsSome(s.step) THEN Interpreter("eval_expr", <<b.I, Unwrap(s.step)>>)
                                       ELSE R_Ok(b.I, VInt(1)), LAMBDA c :
                                  IF ~c.ok THEN S_From(c)
                                  ELSE IF <<a.v.tag, b.v.tag, c.v.tag>> \notin ForKinds
                                  THEN S_Err(c.I, "for loop requires numeric start, end, and step")
                                  ELSE IF AsI64(c.v) = 0
                                  THEN S_Err(c.I, "for loop step cannot be zero")
                                  ELSE Interpreter("eval_for", <<SetEnv(c.I, with_parent(Some(c.I.env))), s,
                                                AsI64(a.v), AsI64(b.v), AsI64(c.v), c.I.env>>))))
      [] s.kind = "Break" -> S_Ok(I, Some(VNil))
      [] s.kind = "Continue" -> S_Ok(I, None)
      [] s.kind = "Return" ->
            IF IsSome(s.expr)
            THEN Let(Interpreter("eval_expr", <<I, Unwrap(s.expr)>>), LAMBDA r :
                     IF ~r.ok THEN S_From(r) ELSE S_Ok(r.I, Some(r.v)))
            ELSE S_Ok(I, Some(VNil))
      [] s.kind = "FuncDecl" ->
            S_Ok(SetEnv(I, define(I.env, s.func.name,
                                  VFunction(s.func, capture_closure(I.env)))), None)
      [] s.kind = "ObjectDecl" ->
            Let(Interpreter("eval_object_members", <<I, s.obj.members, 1, EmptyMap>>), LAMBDA t :
                IF ~t.ok THEN S_From(t)
                ELSE S_Ok(SetEnv(t.I, define(t.I.env, s.obj.name, t.v)), None))

\* a call of the Interpreter method named f on the arguments a
Interpreter(f, a) ==
    CASE f = "eval_expr" -> eval_expr(a[1], a[2])
      [] f = "eval_call" -> eval_call(a[1], a[2], a[3])
      [] f = "call_builtin" -> call_builtin(a[1], a[2], a[3])
      [] f = "bind_params" -> bind_params(a[1], a[2], a[3], a[4], a[5])
      [] f = "print_args" -> print_args(a[1], a[2], a[3])
      [] f = "eval_table_fields" -> eval_table_fields(a[1], a[2], a[3], a[4])
      [] f = "eval_stmt" -> eval_stmt(a[1], a[2])
      [] f = "eval_function_body" -> eval_function_body(a[1], a[2])
      [] f = "eval_body_stmts" -> eval_body_stmts(a[1], a[2], a[3])
      [] f = "eval_block_stmts" -> eval_block_stmts(a[1], a[2], a[3], a[4])
      [] f = "eval_elifs" -> eval_elifs(a[1], a[2], a[3], a[4])
      [] f = "eval_while" -> eval_while(a[1], a[2], a[3])
      [] f = "eval_for" -> eval_for(a[1], a[2], a[3], a[4], a[5], a[6])
      [] f = "eval_object_members" -> eval_object_members(a[1], a[2], a[3], a[4])

(***************************************************************************)
(* Lexer (lexer.rs), at the level of lexemes: the source is the sequence   *)
(* of its lexemes, each a Token without its position, or an Unmatched byte *)
(* (one that no arm of next_token matches).  The position of the k-th      *)
(* lexeme is line 1, column k.                                             *)
(***************************************************************************)
Lexeme(kind, lexeme) == [kind |-> kind, lexeme |-> lexeme]
Unmatched == [kind |-> "Unmatched", lexeme |-> "@"]
Token(kind, lexeme, line, column) ==
    [kind |-> kind, lexeme |-> lexeme, line |-> line, column |-> column]

\* Lexer::next_token on the lexer <<source, pos>>: the token and the new pos
next_token(source, p) ==
    IF p >= Len(source) THEN [token |-> Token("Eof", "", 1, p + 1), pos |-> p]
    ELSE IF source[p + 1].kind = "Unmatched"
    THEN [token |-> Token("Eof", "", 1, p + 1), pos |-> p + 1]
    ELSE [token |-> Token(source[p + 1].kind, source[p + 1].lexeme, 1, p + 1),
          pos |-> p + 1]

(***************************************************************************)
(* Parser (parser.rs).  P = [src, pos, current, errors, consumeDef] is the *)
(* Parser with its Lexer; a parse function returns [P, ok, v, err, panic]: *)
(* the parser it leaves, and Ok(v), Err(err) or a panic.                   *)
(***************************************************************************)
ParseError(line, column, message) == [line |-> line, column |-> column, message |-> message]
NoError == ParseError(0, 0, "")

P_Ok(P, v) == [P |-> P, ok |-> TRUE, v |-> v, err |-> NoError, panic |-> FALSE]
P_Err(P, e) == [P |-> P, ok |-> FALSE, v |-> <<>>, err |-> e, panic |-> FALSE]
P_Panic(P) == [P |-> P, ok |-> FALSE, v |-> <<>>, err |-> NoError, panic |-> TRUE]

Parser_new(source, def) ==
    Let(next_token(source, 0), LAMBDA t :
        [src |-> source, pos |-> t.pos, current |-> t.token, errors |-> <<>>,
         consumeDef |-> def])

error(P, msg) == ParseError(P.current.line, P.current.column, msg)

advance(P) ==
    Let(next_token(P.src, P.pos), LAMBDA t :
        [P EXCEPT !.current = t.token, !.pos = t.pos])

\* the two definitions of consume the file holds: 51-58 returns the ParseError,
\* 82-88 panics
consume(P, kind, msg) ==
    IF P.current.kind = kind THEN P_Ok(advance(P), <<>>)
    ELSE IF P.consumeDef = "panic" THEN P_Panic(P)
    ELSE P_Err(P, error(P, "expected " \o kind \o ": " \o msg))

SyncKeywords == {"KwFunc", "KwVar", "KwIf", "KwWhile", "KwReturn"}

RECURSIVE synchronize_loop(_)
synchronize_loop(P) ==
    IF P.current.kind = "Eof" THEN P
    ELSE IF P.current.kind = "Semicolon" THEN advance(P)
    ELSE IF P.current.kind \in SyncKeywords THEN P
    ELSE synchronize_loop(advance(P))

synchronize(P) == synchronize_loop(advance(P))

\* a parser that forgets the error
DropError(P, e) == P
\* self.errors.push(e) (66, 151)
PushError(P, e) == [P EXCEPT !.errors = Append(P.errors, e)]
SkipIf(P, kind) == IF P.current.kind = kind THEN advance(P) ELSE P

\* f64 from_str of a Float lexeme: digits with one '.'
DotAt(s) == CHOOSE i \in 1..Len(s) : SubSeq(s, i, i) = "."
RECURSIVE Pow10(_)
Pow10(k) == IF k = 0 THEN 1 ELSE 10 * Pow10(k - 1)
ParseFloatLexeme(s) ==
    Let(DotAt(s), LAMBDA i :
        Let(Unwrap(ParseDigits(SubSeq(s, 1, i - 1), 1, 0)), LAMBDA whole :
        Let(SubSeq(s, i + 1, Len(s)), LAMBDA frac :
        Lit_Float(whole * Pow10(Len(frac)) + Unwrap(ParseDigits(frac, 1, 0)), Pow10(Len(frac))))))

\* the operators of each binary level, lowest precedence first (389-509)
\* a grammar whose binary operators all sit on the lowest level
FlatOps(level) ==
    IF level = "or"
    THEN [KwOr |-> "Or", KwAnd |-> "And", EqualEqual |-> "Equal", BangEqual |-> "NotEqual",
          Less |-> "Less", LessEqual |-> "LessEqual", Greater |-> "Greater",
          GreaterEqual |-> "GreaterEqual", Plus |-> "Add", Minus |-> "Sub",
          Star |-> "Mul", Slash |-> "Div"]
    ELSE <<>>
LevelOps(level) ==
    CASE level = "or" -> [KwOr |-> "Or"]
      [] level = "and" -> [KwAnd |-> "And"]
      [] level = "equality" -> [EqualEqual |-> "Equal", BangEqual |-> "NotEqual"]
      [] level = "comparison" ->
            [Less |-> "Less", LessEqual |-> "LessEqual", Greater |-> "Greater",
             GreaterEqual |-> "GreaterEqual"]
      [] level = "term" -> [Plus |-> "Add", Minus |-> "Sub"]
      [] level = "factor" -> [Star |-> "Mul", Slash |-> "Div"]
NextLevel(level) ==
    CASE level = "or" -> "and"
      [] level = "and" -> "equality"
      [] level = "equality" -> "comparison"
      [] level = "comparison" -> "term"
      [] level = "term" -> "factor"
      [] level = "factor" -> "unary"

RECURSIVE Parser(_, _)
RECURSIVE parse_statement(_), parse_var_decl(_), parse_block(_), parse_block_loop(_, _),
          parse_if_stmt(_), parse_elifs(_, _), parse_while_stmt(_), parse_return_stmt(_),
          parse_func_decl(_), parse_params(_, _), parse_object_decl(_),
          parse_members(_, _), parse_event_decl(_), parse_table_literal(_),
          parse_table_fields(_, _), parse_expression(_), parse_level(_, _),
          parse_level_loop(_, _, _), parse_unary(_), parse_primary(_),
          parse_postfix(_, _), parse_args(_, _)

parse_expression(P) == Parser("parse_level", <<P, "or">>)

\* parse_or, parse_and, parse_equality, parse_comparison, parse_term, parse_factor
parse_level(P, level) ==
    IF level = "unary" THEN Parser("parse_unary", <<P>>)
    ELSE Let(parse_level(P, NextLevel(level)), LAMBDA l :
             IF ~l.ok THEN l ELSE Parser("parse_level_loop", <<l.P, level, l.v>>))

parse_level_loop(P, level, expr) ==
    IF P.current.kind \in DOMAIN LevelOps(level)
    THEN Let(Parser("parse_level", <<advance(P), NextLevel(level)>>), LAMBDA r :
             IF ~r.ok THEN r
             ELSE parse_level_loop(r.P, level,
                      Expr_Binary(expr, LevelOps(level)[P.current.kind], r.v)))
    ELSE P_Ok(P, expr)

parse_or(P) == parse_level(P, "or")
parse_and(P) == parse_level(P, "and")
parse_equality(P) == parse_level(P, "equality")
parse_comparison(P) == parse_level(P, "comparison")
parse_term(P) == parse_level(P, "term")
parse_factor(P) == parse_level(P, "factor")

parse_unary(P) ==
    IF P.current.kind \in {"Minus", "KwNot"}
    THEN Let(parse_unary(advance(P)), LAMBDA r :
             IF ~r.ok THEN r
             ELSE P_Ok(r.P, Expr_Unary(IF P.current.kind = "Minus" THEN "Negate" ELSE "Not", r.v)))
    ELSE Parser("parse_primary", <<P>>)

parse_primary(P) ==
    Let(P.current.kind, LAMBDA k :
        Let(P.current.lexeme, LAMBDA lexeme :
        Let(CASE k = "Int" ->
                    Let(ParseDigits(lexeme, 1, 0), LAMBDA n :
                        P_Ok(advance(P), Expr_Literal(Lit_Int(IF IsSome(n) THEN Unwrap(n) ELSE 0))))
              [] k = "Float" -> P_Ok(advance(P), Expr_Literal(ParseFloatLexeme(lexeme)))
              [] k = "KwTrue" -> P_Ok(advance(P), Expr_Literal(Lit_Bool(TRUE)))
              [] k = "KwFalse" -> P_Ok(advance(P), Expr_Literal(Lit_Bool(FALSE)))
              [] k = "KwNil" -> P_Ok(advance(P), Expr_Literal(Lit_Nil))
              [] k = "String" -> P_Ok(advance(P), Expr_Literal(Lit_String(lexeme)))
              [] k = "Identifier" -> P_Ok(advance(P), Expr_Ident(lexeme))
              [] k = "LParen" ->
                    Let(Parser("parse_expression", <<advance(P)>>), LAMBDA e :
                        IF ~e.ok THEN e
                        ELSE Let(consume(e.P, "RParen", "expected ')' after expression"), LAMBDA c :
                                 IF ~c.ok THEN c ELSE P_Ok(c.P, e.v)))
              [] k = "LBrace" ->
                    Let(Parser("parse_table_literal", <<P>>), LAMBDA t :
                        IF ~t.ok THEN t ELSE P_Ok(t.P, Expr_TableLiteral(t.v)))
              [] OTHER ->
                    P_Err(P, error(P, "unexpected token in primary expression: " \o k)), LAMBDA first :
        IF ~first.ok THEN first ELSE Parser("parse_postfix", <<first.P, first.v>>))))

\* the postfix loop of parse_primary (584-634)
parse_postfix(P, expr) ==
    CASE P.current.kind = "LParen" ->
            Let(IF advance(P).current.kind # "RParen" THEN Parser("parse_args", <<advance(P), <<>>>>)
                     ELSE P_Ok(advance(P), <<>>), LAMBDA a :
                IF ~a.ok THEN a
                ELSE Let(consume(a.P, "RParen", "expected ')' after arguments"), LAMBDA c :
                         IF ~c.ok THEN c ELSE parse_postfix(c.P, Expr_Call(expr, a.v))))
      [] P.current.kind = "Dot" ->
            Let(advance(P), LAMBDA P1 :
                IF P1.current.kind = "Identifier"
                THEN parse_postfix(advance(P1), Expr_Member(expr, P1.current.lexeme))
                ELSE P_Err(P1, error(P1, "expected field name after '.'")))
      [] P.current.kind = "LBracket" ->
            Let(Parser("parse_expression", <<advance(P)>>), LAMBDA x :
                IF ~x.ok THEN x
                ELSE Let(consume(x.P, "RBracket", "expected ']' after index"), LAMBDA c :
                         IF ~c.ok THEN c ELSE parse_postfix(c.P, Expr_Index(expr, x.v))))
      [] OTHER -> P_Ok(P, expr)

\* the argument loop (591-599)
parse_args(P, args) ==
    Let(Parser("parse_expression", <<P>>), LAMBDA a :
        IF ~a.ok THEN a
        ELSE IF a.P.current.kind = "Comma" THEN parse_args(advance(a.P), Append(args, a.v))
        ELSE P_Ok(a.P, Append(args, a.v)))

parse_table_literal(P) ==
    Let(consume(P, "LBrace", "expected '{'"), LAMBDA c :
        IF ~c.ok THEN c
        ELSE Let(Parser("parse_table_fields", <<c.P, <<>>>>), LAMBDA f :
                 IF ~f.ok THEN f
                 ELSE Let(consume(f.P, "RBrace", "expected '}' to close table literal"), LAMBDA d :
                          IF ~d.ok THEN d ELSE P_Ok(d.P, f.v))))

\* the field loop of parse_table_literal (353-379)
parse_table_fields(P, fields) ==
    IF P.current.kind \in {"RBrace", "Eof"} THEN P_Ok(P, fields)
    ELSE Let(IF P.current.kind = "Identifier"
                THEN Let(advance(P), LAMBDA P1 :
                         IF P1.current.kind = "Colon"
                         THEN Let(Parser("parse_expression", <<advance(P1)>>), LAMBDA v :
                                  IF ~v.ok THEN v
                                  ELSE P_Ok(v.P, TableField_KeyValue(P.current.lexeme, v.v)))
                         ELSE P_Ok(P1, TableField_Value(Expr_Ident(P.current.lexeme))))
                ELSE Let(Parser("parse_expression", <<P>>), LAMBDA v :
                         IF ~v.ok THEN v ELSE P_Ok(v.P, TableField_Value(v.v))), LAMBDA one :
             IF ~one.ok THEN one
             ELSE IF one.P.current.kind = "Comma"
             THEN parse_table_fields(advance(one.P), Append(fields, one.v))
             ELSE P_Ok(one.P, Append(fields, one.v)))

parse_statement(P) ==
    CASE P.current.kind = "KwVar" -> Parser("parse_var_decl", <<P>>)
      [] P.current.kind = "KwIf" -> Parser("parse_if_stmt", <<P>>)
      [] P.current.kind = "KwWhile" -> Parser("parse_while_stmt", <<P>>)
      [] P.current.kind = "KwReturn" -> Parser("parse_return_stmt", <<P>>)
      [] P.current.kind = "KwFunc" ->
            Let(Parser("parse_func_decl", <<P>>), LAMBDA f :
                IF ~f.ok THEN f ELSE P_Ok(f.P, Stmt_FuncDecl(f.v)))
      [] P.current.kind = "KwObject" ->
            Let(Parser("parse_object_decl", <<P>>), LAMBDA o :
                IF ~o.ok THEN o ELSE P_Ok(o.P, Stmt_ObjectDecl(o.v)))
      [] P.current.kind = "LBrace" ->
            Let(Parser("parse_block", <<P>>), LAMBDA b :
                IF ~b.ok THEN b ELSE P_Ok(b.P, Stmt_Block(b.v)))
      [] OTHER ->
            Let(Parser("parse_expression", <<P>>), LAMBDA e :
                IF ~e.ok THEN e ELSE P_Ok(SkipIf(e.P, "Semicolon"), Stmt_Expr(e.v)))

parse_var_decl(P) ==
    Let(advance(P), LAMBDA P1 :
        IF P1.current.kind # "Identifier"
        THEN P_Err(P1, error(P1, "expected identifier after 'var'"))
        ELSE Let(advance(P1), LAMBDA P2 :
                 Let(IF P2.current.kind = "Colon" THEN SkipIf(advance(P2), "Identifier")
                       ELSE P2, LAMBDA P3 :
                 Let(consume(P3, "Equal", "expected '=' in var declaration"), LAMBDA c :
                 IF ~c.ok THEN c
                 ELSE Let(Parser("parse_expression", <<c.P>>), LAMBDA init :
                          IF ~init.ok THEN init
                          ELSE P_Ok(SkipIf(init.P, "Semicolon"),
                                    Stmt_VarDecl(P1.current.lexeme, init.v)))))))

parse_block(P) ==
    Let(consume(P, "LBrace", "expected '{' to start block"), LAMBDA c :
        IF ~c.ok THEN c
        ELSE Let(Parser("parse_block_loop", <<c.P, <<>>>>), LAMBDA b :
                 IF ~b.ok THEN b
                 ELSE Let(consume(b.P, "RBrace", "expected '}' to close block"), LAMBDA d :
                          IF ~d.ok THEN d ELSE P_Ok(d.P, b.v))))

\* the loop of parse_block (148-153)
parse_block_loop(P, stmts) ==
    IF P.current.kind \in {"RBrace", "Eof"} THEN P_Ok(P, stmts)
    ELSE Let(Parser("parse_statement", <<P>>), LAMBDA r :
             IF r.panic THEN r
             ELSE IF r.ok THEN parse_block_loop(r.P, Append(stmts, r.v))
             ELSE parse_block_loop(synchronize(PushError(r.P, r.err)), stmts))

parse_if_stmt(P) ==
    Let(consume(P, "KwIf", "expected 'if'"), LAMBDA k :
        IF ~k.ok THEN k
        ELSE Let(Parser("parse_expression", <<k.P>>), LAMBDA condition :
            IF ~condition.ok THEN condition
        ELSE Let(consume(condition.P, "KwThen", "expected 'then' after if condition"), LAMBDA t :
            IF ~t.ok THEN t
        ELSE Let(Parser("parse_block", <<t.P>>), LAMBDA then_block :
            IF ~then_block.ok THEN then_block
        ELSE Let(Parser("parse_elifs", <<then_block.P, <<>>>>), LAMBDA elifs :
            IF ~elifs.ok THEN elifs
        ELSE Let(IF elifs.P.current.kind = "KwElse"
                    THEN Let(Parser("parse_block", <<advance(elifs.P)>>), LAMBDA b :
                             IF ~b.ok THEN b ELSE P_Ok(b.P, Some(Stmt_Block(b.v))))
                    ELSE P_Ok(elifs.P, None), LAMBDA else_branch :
            IF ~else_branch.ok THEN else_branch
        ELSE Let(consume(else_branch.P, "KwEnd", "expected 'end' after if statement"), LAMBDA e :
            IF ~e.ok THEN e
        ELSE P_Ok(e.P, Stmt_If(condition.v, Stmt_Block(then_block.v), elifs.v, else_branch.v)))))))))

\* the elif loop of parse_if_stmt (165-171)
parse_elifs(P, elifs) ==
    IF P.current.kind # "KwElif" THEN P_Ok(P, elifs)
    ELSE Let(Parser("parse_expression", <<advance(P)>>), LAMBDA cond :
             IF ~cond.ok THEN cond
         ELSE Let(consume(cond.P, "KwThen", "expected 'then' after elif condition"), LAMBDA t :
             IF ~t.ok THEN t
         ELSE Let(Parser("parse_block", <<t.P>>), LAMBDA block :
             IF ~block.ok THEN block
         ELSE parse_elifs(block.P, Append(elifs, <<cond.v, Stmt_Block(block.v)>>)))))

parse_while_stmt(P) ==
    Let(consume(P, "KwWhile", "expected 'while'"), LAMBDA k :
        IF ~k.ok THEN k
        ELSE Let(Parser("parse_expression", <<k.P>>), LAMBDA condition :
            IF ~condition.ok THEN condition
        ELSE Let(consume(condition.P, "KwDo", "expected 'do' after while condition"), LAMBDA d :
            IF ~d.ok THEN d
        ELSE Let(Parser("parse_block", <<d.P>>), LAMBDA b :
            IF ~b.ok THEN b
        ELSE Let(consume(b.P, "KwEnd", "expected 'end' after while statement"), LAMBDA e :
            IF ~e.ok THEN e
        ELSE P_Ok(e.P, Stmt_While(condition.v, Stmt_Block(b.v))))))))

parse_return_stmt(P) ==
    Let(consume(P, "KwReturn", "expected 'return'"), LAMBDA k :
        IF ~k.ok THEN k
        ELSE IF k.P.current.kind # "Semicolon"
        THEN Let(Parser("parse_expression", <<k.P>>), LAMBDA e :
                 IF ~e.ok THEN e
                 ELSE P_Ok(SkipIf(e.P, "Semicolon"), Stmt_Return(Some(e.v))))
        ELSE P_Ok(advance(k.P), Stmt_Return(None)))

\* the parameter loop of parse_func_decl and parse_event_decl (229-243, 323-337)
parse_params(P, params) ==
    IF P.current.kind # "Identifier" THEN P_Err(P, error(P, "expected parameter name"))
    ELSE Let(advance(P), LAMBDA P1 :
             Let(Append(params, Param(P.current.lexeme)), LAMBDA ps :
             IF P1.current.kind = "Comma" THEN parse_params(advance(P1), ps)
             ELSE P_Ok(P1, ps)))

parse_func_decl(P) ==
    Let(consume(P, "KwFunc", "expected 'func'"), LAMBDA k :
        IF ~k.ok THEN k
        ELSE IF k.P.current.kind # "Identifier"
        THEN P_Err(k.P, error(k.P, "expected function name after 'func'"))
        ELSE Let(consume(advance(k.P), "LParen", "expected '(' after function name"), LAMBDA l :
            IF ~l.ok THEN l
        ELSE Let(IF l.P.current.kind # "RParen" THEN Parser("parse_params", <<l.P, <<>>>>)
                           ELSE P_Ok(l.P, <<>>), LAMBDA params :
            IF ~params.ok THEN params
        ELSE Let(consume(params.P, "RParen", "expected ')' after parameter list"), LAMBDA r :
            IF ~r.ok THEN r
        ELSE Let(IF r.P.current.kind = "Colon" THEN SkipIf(advance(r.P), "Identifier")
                       ELSE r.P, LAMBDA P1 :
                 Let(consume(P1, "Colon", "expected ':' before function body"), LAMBDA c :
            IF ~c.ok THEN c
        ELSE Let(Parser("parse_block", <<c.P>>), LAMBDA b :
            IF ~b.ok THEN b
        ELSE Let(consume(b.P, "KwEnd", "expected 'end' after function body"), LAMBDA e :
            IF ~e.ok THEN e
        ELSE P_Ok(e.P, FuncDecl(k.P.current.lexeme, params.v, Stmt_Block(b.v)))))))))))

parse_object_decl(P) ==
    Let(consume(P, "KwObject", "expected 'object'"), LAMBDA k :
        IF ~k.ok THEN k
        ELSE IF k.P.current.kind # "Identifier"
        THEN P_Err(k.P, error(k.P, "expected object name after 'object'"))
        ELSE Let(consume(advance(k.P), "Colon", "expected ':' after object name"), LAMBDA c :
            IF ~c.ok THEN c
        ELSE Let(consume(c.P, "LBrace", "expected '{' to start object body"), LAMBDA l :
            IF ~l.ok THEN l
        ELSE Let(Parser("parse_members", <<l.P, <<>>>>), LAMBDA m :
            IF ~m.ok THEN m
        ELSE Let(consume(m.P, "RBrace", "expected '}' to close object body"), LAMBDA r :
            IF ~r.ok THEN r
        ELSE Let(consume(r.P, "KwEnd", "expected 'end' after object"), LAMBDA e :
            IF ~e.ok THEN e
        ELSE P_Ok(e.P, ObjectDecl(k.P.current.lexeme, m.v))))))))

\* the member loop of parse_object_decl (282-300)
parse_members(P, members) ==
    CASE P.current.kind \in {"RBrace", "Eof"} -> P_Ok(P, members)
      [] P.current.kind = "KwVar" ->
            Let(Parser("parse_var_decl", <<P>>), LAMBDA v :
                IF ~v.ok THEN v
                ELSE parse_members(v.P, Append(members, ObjectMember_Var(v.v))))
      [] P.current.kind = "KwFunc" ->
            Let(Parser("parse_func_decl", <<P>>), LAMBDA f :
                IF ~f.ok THEN f
                ELSE parse_members(f.P, Append(members, ObjectMember_Method(f.v))))
      [] P.current.kind = "KwOn" ->
            Let(Parser("parse_event_decl", <<P>>), LAMBDA ev :
                IF ~ev.ok THEN ev
                ELSE parse_members(ev.P, Append(members, ObjectMember_Event(ev.v))))
      [] OTHER -> P_Err(P, error(P, "expected 'var', 'func', or 'on' in object body"))

parse_event_decl(P) ==
    Let(consume(P, "KwOn", "expected 'on'"), LAMBDA k :
        IF ~k.ok THEN k
        ELSE IF k.P.current.kind # "Identifier"
        THEN P_Err(k.P, error(k.P, "expected event name after 'on'"))
        ELSE Let(consume(advance(k.P), "LParen", "expected '(' after event name"), LAMBDA l :
            IF ~l.ok THEN l
        ELSE Let(IF l.P.current.kind # "RParen" THEN Parser("parse_params", <<l.P, <<>>>>)
                           ELSE P_Ok(l.P, <<>>), LAMBDA params :
            IF ~params.ok THEN params
        ELSE Let(consume(params.P, "RParen", "expected ')' after parameter list"), LAMBDA r :
            IF ~r.ok THEN r
        ELSE Let(consume(r.P, "Colon", "expected ':' before event body"), LAMBDA c :
            IF ~c.ok THEN c
        ELSE Let(Parser("parse_block", <<c.P>>), LAMBDA b :
            IF ~b.ok THEN b
        ELSE Let(consume(b.P, "KwEnd", "expected 'end' after event body"), LAMBDA e :
            IF ~e.ok THEN e
        ELSE P_Ok(e.P, EventDecl(k.P.current.lexeme, params.v, Stmt_Block(b.v))))))))))

\* a call of the Parser method named f on the arguments a
Parser(f, a) ==
    CASE f = "parse_statement" -> parse_statement(a[1])
      [] f = "parse_var_decl" -> parse_var_decl(a[1])
      [] f = "parse_block" -> parse_block(a[1])
      [] f = "parse_block_loop" -> parse_block_loop(a[1], a[2])
      [] f = "parse_if_stmt" -> parse_if_stmt(a[1])
      [] f = "parse_elifs" -> parse_elifs(a[1], a[2])
      [] f = "parse_while_stmt" -> parse_while_stmt(a[1])
      [] f = "parse_return_stmt" -> parse_return_stmt(a[1])
      [] f = "parse_func_decl" -> parse_func_decl(a[1])
      [] f = "parse_params" -> parse_params(a[1], a[2])
      [] f = "parse_object_decl" -> parse_object_decl(a[1])
      [] f = "parse_members" -> parse_members(a[1], a[2])
      [] f = "parse_event_decl" -> parse_event_decl(a[1])
      [] f = "parse_table_literal" -> parse_table_literal(a[1])
      [] f = "parse_table_fields" -> parse_table_fields(a[1], a[2])
      [] f = "parse_expression" -> parse_expression(a[1])
      [] f = "parse_level" -> parse_level(a[1], a[2])
      [] f = "parse_level_loop" -> parse_level_loop(a[1], a[2], a[3])
      [] f = "parse_unary" -> parse_unary(a[1])
      [] f = "parse_primary" -> parse_primary(a[1])
      [] f = "parse_postfix" -> parse_postfix(a[1], a[2])
      [] f = "parse_args" -> parse_args(a[1], a[2])

\* one iteration of the loop of parse_program (63-69) on the parser P with the
\* statements parsed so far
parse_program_step(P, stmts) ==
    Let(Parser("parse_statement", <<P>>), LAMBDA r :
        IF r.panic THEN [P |-> r.P, body |-> stmts, panic |-> TRUE]
        ELSE IF r.ok THEN [P |-> r.P, body |-> Append(stmts, r.v), panic |-> FALSE]
        ELSE [P |-> synchronize(PushError(r.P, r.err)), body |-> stmts, panic |-> FALSE])

RECURSIVE parse_program_loop(_, _)
parse_program_loop(P, stmts) ==
    IF P.current.kind = "Eof" THEN [P |-> P, body |-> stmts, panic |-> FALSE]
    ELSE Let(parse_program_step(P, stmts), LAMBDA n :
             IF n.panic THEN n ELSE parse_program_loop(n.P, n.body))

\* a parse_program that returns Ok of an empty Program whatever the pass recorded
ParseForgetsPass(P) ==
    [P |-> P, result |-> "ok", program |-> Program(<<>>), errors |-> <<>>]

\* Parser::parse_program: Ok(Program), Err(errors) or a panic
parse_program(P) ==
    Let(parse_program_loop(P, <<>>), LAMBDA f :
        IF f.panic THEN [P |-> f.P, result |-> "panic", program |-> Program(<<>>), errors |-> <<>>]
        ELSE IF f.P.errors = <<>>
        THEN [P |-> f.P, result |-> "ok", program |-> Program(f.body), errors |-> <<>>]
        ELSE [P |-> [f.P EXCEPT !.errors = <<>>], result |-> "errors",
              program |-> Program(<<>>), errors |-> f.P.errors])

(***************************************************************************)
(* Inputs.  Programs are ASTs a host hands to eval_program; sources are    *)
(* lexeme sequences a host hands to the parser.                            *)
(***************************************************************************)
Num(i) == Expr_Literal(Lit_Int(i))
Str(t) == Expr_Literal(Lit_String(t))
True == Expr_Literal(Lit_Bool(TRUE))
False == Expr_Literal(Lit_Bool(FALSE))
Var(name) == Expr_Ident(name)
Call(name, args) == Expr_Call(Expr_Ident(name), args)
Ret(e) == Stmt_Return(Some(e))
Func(name, params, stmts) ==
    Stmt_FuncDecl(FuncDecl(name, [k \in DOMAIN params |-> Param(params[k])], Stmt_Block(stmts)))
DivByZero == Expr_Binary(Num(1), "Div", Num(0))

MaxNest == 2   \* statements nested around a return or a break

\* a statement of the given kind whose body (or taken branch) is the statement inner
Wrap(kind, inner) ==
    CASE kind = "block" -> Stmt_Block(<<inner>>)
      [] kind = "if" -> Stmt_If(True, Stmt_Block(<<inner>>), <<>>, None)
      [] kind = "elif" ->
            Stmt_If(False, Stmt_Block(<<>>), << <<True, Stmt_Block(<<inner>>)>> >>, None)
      [] kind = "else" -> Stmt_If(False, Stmt_Block(<<>>), <<>>, Some(Stmt_Block(<<inner>>)))
      [] kind = "while" -> Stmt_While(True, Stmt_Block(<<inner>>))
      [] kind = "for" -> Stmt_For("i", Num(1), Num(2), None, Stmt_Block(<<inner>>))

RECURSIVE WrapAll(_, _)
WrapAll(kinds, inner) ==
    IF kinds = <<>> THEN inner ELSE Wrap(Head(kinds), WrapAll(Tail(kinds), inner))

WrapKinds == {"block", "if", "elif", "else", "while", "for"}
Nestings == UNION {[1..n -> WrapKinds] : n \in 0..MaxNest}

\* func f(): { <return v, nested in kinds> return v + 1; } end  var r = f();
ReturnProgram(kinds, v) ==
    Program(<<Func("f", <<>>, <<WrapAll(kinds, Ret(Num(v))), Ret(Num(v + 1))>>),
              Stmt_VarDecl("r", Call("f", <<>>))>>)
ReturnPrograms == {ReturnProgram(kinds, 1) : kinds \in Nestings}

\* func f(): { <stmts, none of them a return> } end  var r = f();
NoReturnBodies ==
    {<<>>, <<Stmt_VarDecl("a", Num(1))>>, <<Stmt_Expr(Num(1))>>,
     <<Wrap("if", Stmt_VarDecl("a", Num(1)))>>, <<Wrap("for", Stmt_Expr(Num(1)))>>}
NoReturnProgram(stmts) ==
    Program(<<Func("f", <<>>, stmts), Stmt_VarDecl("r", Call("f", <<>>))>>)
NoReturnPrograms == {NoReturnProgram(stmts) : stmts \in NoReturnBodies}

\* the break statement inside d nested blocks
RECURSIVE BreakBody(_)
BreakBody(d) == IF d = 0 THEN Stmt_Break ELSE Stmt_Block(<<BreakBody(d - 1)>>)
LoopOf(loop, lbody) ==
    IF loop = "while" THEN Stmt_While(True, lbody)
    ELSE Stmt_For("i", Num(1), Num(2), None, lbody)
LoopKinds == {"while", "for"}

\* func f(): { <loop whose body is break inside d blocks> return 7; } end  var r = f();
BreakProgram(loop, d) ==
    Program(<<Func("f", <<>>, <<LoopOf(loop, BreakBody(d)), Ret(Num(7))>>),
              Stmt_VarDecl("r", Call("f", <<>>))>>)
\* func f(): { for i = 1, 2 { while true { break; } print(i); } return 7; } end  var r = f();
NestedBreakProgram ==
    Program(<<Func("f", <<>>,
                 <<Stmt_For("i", Num(1), Num(2), None,
                       Stmt_Block(<<Stmt_While(True, Stmt_Block(<<Stmt_Break>>)),
                                    Stmt_Expr(Call("print", <<Var("i")>>))>>)),
                   Ret(Num(7))>>),
              Stmt_VarDecl("r", Call("f", <<>>))>>)
BreakPrograms ==
    {BreakProgram(loop, d) : loop \in LoopKinds, d \in 0..MaxNest} \cup {NestedBreakProgram}

\* func f(): { <stmts> } end  f();
CallBodies ==
    {<<Stmt_VarDecl("a", Num(1))>>, <<Ret(Num(1))>>, <<Stmt_Expr(DivByZero)>>,
     <<Stmt_Block(<<Stmt_Expr(DivByZero)>>)>>, <<Stmt_Expr(Var("undefined"))>>}
CallProgram(stmts) ==
    Program(<<Func("f", <<>>, stmts), Stmt_Expr(Call("f", <<>>))>>)
\* func g(): { 1 / 0; } end  func f(): { g(); } end  f();
NestedCallProgram ==
    Program(<<Func("g", <<>>, <<Stmt_Expr(DivByZero)>>),
              Func("f", <<>>, <<Stmt_Expr(Call("g", <<>>))>>),
              Stmt_Expr(Call("f", <<>>))>>)
CallPrograms == {CallProgram(stmts) : stmts \in CallBodies} \cup {NestedCallProgram}

\* var x = 1;  { var x = 2; <tail> }
BlockTails ==
    {<<>>, <<Ret(Num(3))>>, <<Stmt_Expr(DivByZero)>>,
     <<Stmt_Block(<<Stmt_VarDecl("x", Num(3))>>)>>,
     <<Stmt_Assignment("x", Num(4))>>}
BlockProgram(tail) ==
    Program(<<Stmt_VarDecl("x", Num(1)), Stmt_Block(<<Stmt_VarDecl("x", Num(2))>> \o tail)>>)
\* func f(): { var x = 1; { var x = 2; } return x; } end  var r = f();
BlockInFunctionProgram ==
    Program(<<Func("f", <<>>, <<Stmt_VarDecl("x", Num(1)),
                                Stmt_Block(<<Stmt_VarDecl("x", Num(2))>>),
                                Ret(Var("x"))>>),
              Stmt_VarDecl("r", Call("f", <<>>))>>)
\* func f(): { 1 / 0; } end  { f(); }
FailingCallInBlockProgram ==
    Program(<<Func("f", <<>>, <<Stmt_Expr(DivByZero)>>),
              Stmt_Block(<<Stmt_Expr(Call("f", <<>>))>>)>>)
BlockPrograms ==
    {BlockProgram(tail) : tail \in BlockTails}
    \cup {BlockInFunctionProgram, FailingCallInBlockProgram}

Captured == {10, 3}
Arguments == {5, 0}
Inner(name) == Func("inner", <<"n">>, <<Ret(Expr_Binary(Var(name), "Add", Var("n")))>>)
\* var x = x0;  func makeAdder(): { func inner(n): { return x + n; } end return inner; } end
\* var adder = makeAdder();  var result = adder(n0);
ClosureProgram(x0, n0) ==
    Program(<<Stmt_VarDecl("x", Num(x0)),
              Func("makeAdder", <<>>, <<Inner("x"), Ret(Var("inner"))>>),
              Stmt_VarDecl("adder", Call("makeAdder", <<>>)),
              Stmt_VarDecl("result", Call("adder", <<Num(n0)>>))>>)
\* the captured variable is a local of makeAdder
LocalClosureProgram(x0, n0) ==
    Program(<<Func("makeAdder", <<>>,
                   <<Stmt_VarDecl("y", Num(x0)), Inner("y"), Ret(Var("inner"))>>),
              Stmt_VarDecl("adder", Call("makeAdder", <<>>)),
              Stmt_VarDecl("result", Call("adder", <<Num(n0)>>))>>)
\* var result = makeAdder()(n0);
DirectClosureProgram(x0, n0) ==
    Program(<<Stmt_VarDecl("x", Num(x0)),
              Func("makeAdder", <<>>, <<Inner("x"), Ret(Var("inner"))>>),
              Stmt_VarDecl("result", Expr_Call(Call("makeAdder", <<>>), <<Num(n0)>>))>>)
ClosureFamily(x0, n0) ==
    {ClosureProgram(x0, n0), LocalClosureProgram(x0, n0), DirectClosureProgram(x0, n0)}
ClosurePrograms == UNION {ClosureFamily(x0, n0) : x0 \in Captured, n0 \in Arguments}

\* var g = g0;  func f(): { return g; } end  var r = f();
SeesGlobalProgram(g0) ==
    Program(<<Stmt_VarDecl("g", Num(g0)), Func("f", <<>>, <<Ret(Var("g"))>>),
              Stmt_VarDecl("r", Call("f", <<>>))>>)
\* func f(): { return y; } end  func caller(): { var y = 5; return f(); } end
\* var r = caller();
CallerOnlyProgram ==
    Program(<<Func("f", <<>>, <<Ret(Var("y"))>>),
              Func("caller", <<>>, <<Stmt_VarDecl("y", Num(5)), Ret(Call("f", <<>>))>>),
              Stmt_VarDecl("r", Call("caller", <<>>))>>)
\* the same with a global y = 1 declared before f
CallerShadowProgram ==
    Program(<<Stmt_VarDecl("y", Num(1))>> \o CallerOnlyProgram.body)
ScopePrograms ==
    {SeesGlobalProgram(g0) : g0 \in Captured} \cup {CallerOnlyProgram, CallerShadowProgram}

\* var x = 1;  func f(): { return x; } end  <x becomes 2>  var r = f();
Redefinitions == {Stmt_VarDecl("x", Num(2)), Stmt_Assignment("x", Num(2))}
RedefineProgram(redef) ==
    Program(<<Stmt_VarDecl("x", Num(1)), Func("f", <<>>, <<Ret(Var("x"))>>), redef,
              Stmt_VarDecl("r", Call("f", <<>>))>>)
\* func f(): { return x; } end  var x = 2;  var r = f();
LateDefineProgram ==
    Program(<<Func("f", <<>>, <<Ret(Var("x"))>>), Stmt_VarDecl("x", Num(2)),
              Stmt_VarDecl("r", Call("f", <<>>))>>)
\* var x = 1;  func a(): { return x; } end  var x = 2;  func b(): { return x; } end
\* var ra = a();  var rb = b();
SiblingProgram ==
    Program(<<Stmt_VarDecl("x", Num(1)), Func("a", <<>>, <<Ret(Var("x"))>>),
              Stmt_VarDecl("x", Num(2)), Func("b", <<>>, <<Ret(Var("x"))>>),
              Stmt_VarDecl("ra", Call("a", <<>>)), Stmt_VarDecl("rb", Call("b", <<>>))>>)
SharingPrograms ==
    {RedefineProgram(redef) : redef \in Redefinitions} \cup {LateDefineProgram, SiblingProgram}

\* var r = false and E;   var r = true or E;
Effects == {DivByZero, Call("print", <<Str("x")>>), Var("undefined")}
ShortCircuitProgram(op, effect) ==
    Program(<<Stmt_VarDecl("r", Expr_Binary(IF op = "And" THEN False ELSE True, op, effect))>>)
\* the right operand is needed: var r = true and E;   var r = false or E;
FullProgram(op, effect) ==
    Program(<<Stmt_VarDecl("r", Expr_Binary(IF op = "And" THEN True ELSE False, op, effect))>>)
LogicPrograms ==
    {ShortCircuitProgram(op, effect) : op \in {"And", "Or"}, effect \in Effects}
    \cup {FullProgram(op, effect) : op \in {"And", "Or"}, effect \in Effects}

AstPrograms ==
    ReturnPrograms \cup NoReturnPrograms \cup BreakPrograms \cup CallPrograms
    \cup BlockPrograms \cup ClosurePrograms \cup ScopePrograms \cup SharingPrograms
    \cup LogicPrograms

\* var r = a / b;   var r = a % b;   with b zero
Dividends == {Lit_Int(1), Lit_Float(1, 1)}
Zeros == {Lit_Int(0), Lit_Float(0, 1)}
DivOps == {"Div", "Mod"}
DivProgram(a, op, b) ==
    Program(<<Stmt_VarDecl("r", Expr_Binary(Expr_Literal(a), op, Expr_Literal(b)))>>)
DivPrograms == {DivProgram(a, op, b) : a \in Dividends, op \in DivOps, b \in Zeros}

\* func first(a, b): { return a; } end  func second(a, b): { return b; } end
\* var y = 5;  var a = 7;  var r1 = first(<args>);  var r2 = second(<args>);
\* with the values the parameters a and b are to receive
ArgCases ==
    {[args |-> <<>>, a |-> VNil, b |-> VNil],
     [args |-> <<Var("y")>>, a |-> VInt(5), b |-> VNil],
     [args |-> <<Var("y"), Num(2)>>, a |-> VInt(5), b |-> VInt(2)],
     [args |-> <<Num(1), Var("a")>>, a |-> VInt(1), b |-> VInt(7)],
     [args |-> <<Var("y"), Num(2), DivByZero>>, a |-> VInt(5), b |-> VInt(2)],
     [args |-> <<Var("y"), Num(2), Var("z"), Num(4)>>, a |-> VInt(5), b |-> VInt(2)]}
ArgProgram(args) ==
    Program(<<Func("first", <<"a", "b">>, <<Ret(Var("a"))>>),
              Func("second", <<"a", "b">>, <<Ret(Var("b"))>>),
              Stmt_VarDecl("y", Num(5)), Stmt_VarDecl("a", Num(7)),
              Stmt_VarDecl("r1", Call("first", args)),
              Stmt_VarDecl("r2", Call("second", args))>>)
ArgPrograms == {ArgProgram(c.args) : c \in ArgCases}

\* three scopes, the global one (level 0) and two nested blocks; the levels of
\* defs declare x as level + 1, and the innermost block prints x:
\* [var x = 1;]  { [var x = 2;]  { [var x = 3;]  print(x); } }
ChainDepth == 2   \* blocks nested around the lookup
RECURSIVE ChainStmts(_, _)
ChainStmts(defs, level) ==
    (IF level \in defs THEN <<Stmt_VarDecl("x", Num(level + 1))>> ELSE <<>>)
    \o (IF level = ChainDepth THEN <<Stmt_Expr(Call("print", <<Var("x")>>))>>
        ELSE <<Stmt_Block(ChainStmts(defs, level + 1))>>)
ChainProgram(defs) == Program(ChainStmts(defs, 0))
ChainPrograms == {ChainProgram(defs) : defs \in SUBSET (0..ChainDepth)}

\* var a = 1;  <a statement that fails>  var b = 2;  print("x");
Failures ==
    {Stmt_Expr(DivByZero), Stmt_VarDecl("c", Var("undefined")),
     Stmt_Expr(Call("a", <<>>)), Stmt_Block(<<Stmt_Expr(DivByZero)>>)}
AbortProgram(failure) ==
    Program(<<Stmt_VarDecl("a", Num(1)), failure, Stmt_VarDecl("b", Num(2)),
              Stmt_Expr(Call("print", <<Str("x")>>))>>)
AbortPrograms == {AbortProgram(failure) : failure \in Failures}

\* var t = {x: 10, y: 20};  var n = 5;  var b = true;  var s = "x";  var z = nil;
\* var r = <access>;
\* with the value of the access, or the message of its RuntimeError
TableXY ==
    Expr_TableLiteral(<<TableField_KeyValue("x", Num(10)), TableField_KeyValue("y", Num(20))>>)
NonTables == {Var("n"), Var("b"), Var("s"), Var("z"), Var("print")}
NonStrings == {Var("n"), Var("b"), Var("z"), Var("t"), Var("print")}
AccessCases ==
    {[access |-> Expr_Member(Var("t"), "x"), ok |-> TRUE, v |-> VInt(10), err |-> ""],
     [access |-> Expr_Index(Var("t"), Str("y")), ok |-> TRUE, v |-> VInt(20), err |-> ""],
     [access |-> Expr_Member(Var("t"), "z"), ok |-> TRUE, v |-> VNil, err |-> ""],
     [access |-> Expr_Index(Var("t"), Str("z")), ok |-> TRUE, v |-> VNil, err |-> ""],
     [access |-> Expr_Index(Var("t"), Var("s")), ok |-> TRUE, v |-> VInt(10), err |-> ""]}
    \cup {[access |-> Expr_Member(o, "x"), ok |-> FALSE, v |-> VNil,
           err |-> "cannot access member 'x' on non-table"] : o \in NonTables}
    \cup {[access |-> Expr_Index(o, Str("x")), ok |-> FALSE, v |-> VNil,
           err |-> "cannot index non-table"] : o \in NonTables}
    \cup {[access |-> Expr_Index(Var("t"), i), ok |-> FALSE, v |-> VNil,
           err |-> "table index must be a string"] : i \in NonStrings}
AccessProgram(access) ==
    Program(<<Stmt_VarDecl("t", TableXY), Stmt_VarDecl("n", Num(5)),
              Stmt_VarDecl("b", True), Stmt_VarDecl("s", Str("x")),
              Stmt_VarDecl("z", Expr_Literal(Lit_Nil)), Stmt_VarDecl("r", access)>>)
AccessPrograms == {AccessProgram(c.access) : c \in AccessCases}

\* object Player: { [var hp = 100;]  [func heal(): { return 1; } end]
\*                  [on hit(): { } end] } end   var r = Player.hp;
MemberNames == <<"hp", "heal", "hit">>
HealDecl == FuncDecl("heal", <<>>, Stmt_Block(<<Ret(Num(1))>>))
PlayerMember(name) ==
    CASE name = "hp" -> ObjectMember_Var(Stmt_VarDecl("hp", Num(100)))
      [] name = "heal" -> ObjectMember_Method(HealDecl)
      [] name = "hit" -> ObjectMember_Event(EventDecl("hit", <<>>, Stmt_Block(<<>>)))
RECURSIVE PlayerMembers(_, _)
PlayerMembers(names, i) ==
    IF i > Len(MemberNames) THEN <<>>
    ELSE (IF MemberNames[i] \in names THEN <<PlayerMember(MemberNames[i])>> ELSE <<>>)
         \o PlayerMembers(names, i + 1)
ObjectProgram(names) ==
    Program(<<Stmt_ObjectDecl(ObjectDecl("Player", PlayerMembers(names, 1))),
              Stmt_VarDecl("r", Expr_Member(Var("Player"), "hp"))>>)
MemberSets == SUBSET {"hp", "heal", "hit"}
ObjectPrograms == {ObjectProgram(names) : names \in MemberSets}

\* var r = substring(<s>, <start>, <end>);
SubstringTexts == {"hello", ""}
SubstringBounds == {-5, -1, 0, 2, 5, 6, 100}
SubstringProgram(s, start, end) ==
    Program(<<Stmt_VarDecl("r", Call("substring", <<Str(s), Num(start), Num(end)>>))>>)
SubstringPrograms ==
    {SubstringProgram(s, start, end) :
        s \in SubstringTexts, start \in SubstringBounds, end \in SubstringBounds}

\* var i = 6;  var j = 3;  var f = 1.5;  var s = "ab";  var b = true;  var z = nil;
\* var t = {};  var r = <x> <op> <y>;    for x, y among the seven names
OperandNames == {"i", "j", "f", "s", "b", "z", "t"}
ArithOps == {"Add", "Sub", "Mul", "Div"}
ArithProgram(x, op, y) ==
    Program(<<Stmt_VarDecl("i", Num(6)), Stmt_VarDecl("j", Num(3)),
              Stmt_VarDecl("f", Expr_Literal(Lit_Float(3, 2))),
              Stmt_VarDecl("s", Str("ab")), Stmt_VarDecl("b", True),
              Stmt_VarDecl("z", Expr_Literal(Lit_Nil)),
              Stmt_VarDecl("t", Expr_TableLiteral(<<>>)),
              Stmt_VarDecl("r", Expr_Binary(Var(x), op, Var(y)))>>)
ArithPrograms == {ArithProgram(x, op, y) : x \in OperandNames, op \in ArithOps, y \in OperandNames}

\* var x = 1;  <an inner scope that executes x = 2;>  var r = x;
AssignScopes == {"block", "nested", "function", "same"}
AssignIn(scope) ==
    CASE scope = "block" -> <<Stmt_Block(<<Stmt_Assignment("x", Num(2))>>)>>
      [] scope = "nested" -> <<Stmt_Block(<<Stmt_Block(<<Stmt_Assignment("x", Num(2))>>)>>)>>
      [] scope = "function" ->
            <<Func("f", <<>>, <<Stmt_Assignment("x", Num(2)), Ret(Num(0))>>),
              Stmt_Expr(Call("f", <<>>))>>
      [] scope = "same" -> <<Stmt_Assignment("x", Num(2))>>
AssignProgram(scope) ==
    Program(<<Stmt_VarDecl("x", Num(1))>> \o AssignIn(scope) \o <<Stmt_VarDecl("r", Var("x"))>>)
\* q = 3;  var r = q;      (q is bound nowhere)
AssignNewProgram ==
    Program(<<Stmt_Assignment("q", Num(3)), Stmt_VarDecl("r", Var("q"))>>)
AssignPrograms == {AssignProgram(scope) : scope \in AssignScopes} \cup {AssignNewProgram}

\* for i = 1, 2 { print("a"); <continue>; print("b"); }  print("z");
\* with the continue bare, in a block, or in the branch of an if
ContinueForms == {"bare", "block", "if"}
ContinueStmt(form) ==
    CASE form = "bare" -> Stmt_Continue
      [] form = "block" -> Stmt_Block(<<Stmt_Continue>>)
      [] form = "if" -> Stmt_If(True, Stmt_Block(<<Stmt_Continue>>), <<>>, None)
ContinueProgram(form) ==
    Program(<<Stmt_For("i", Num(1), Num(2), None,
                       Stmt_Block(<<Stmt_Expr(Call("print", <<Str("a")>>)), ContinueStmt(form),
                                    Stmt_Expr(Call("print", <<Str("b")>>))>>)),
              Stmt_Expr(Call("print", <<Str("z")>>))>>)
ContinuePrograms == {ContinueProgram(form) : form \in ContinueForms}

\* var x = 1;  for i = 1, 2 [, 0] { <body> }
\* the loop ends normally, by a return, by a RuntimeError, or has a step of zero
ForExits == {"normal", "return", "error", "zero"}
ForBody(exit) ==
    CASE exit = "normal" -> Stmt_Expr(Call("print", <<Var("i")>>))
      [] exit = "return" -> Ret(Var("i"))
      [] exit = "error" -> Stmt_Expr(DivByZero)
      [] exit = "zero" -> Stmt_Expr(Call("print", <<Var("i")>>))
ForProgram(exit) ==
    Program(<<Stmt_VarDecl("x", Num(1)),
              Stmt_For("i", Num(1), Num(2), IF exit = "zero" THEN Some(Num(0)) ELSE None,
                       Stmt_Block(<<ForBody(exit)>>))>>)
ForPrograms == {ForProgram(exit) : exit \in ForExits}

\* func f(n): { while n > 0 { return f(n - 1); } return 0; } end
CountDown ==
    Func("f", <<"n">>,
         <<Stmt_While(Expr_Binary(Var("n"), "Greater", Num(0)),
                      Stmt_Block(<<Ret(Call("f", <<Expr_Binary(Var("n"), "Sub", Num(1))>>))>>)),
           Ret(Num(0))>>)
\* <CountDown>  var r = f(1);
SelfCallProgram == Program(<<CountDown, Stmt_VarDecl("r", Call("f", <<Num(1)>>))>>)
\* func f(n): { return f; } end  var r = f(1);
SelfReferenceProgram ==
    Program(<<Func("f", <<"n">>, <<Ret(Var("f"))>>), Stmt_VarDecl("r", Call("f", <<Num(1)>>))>>)
\* var f = 5;  func f(n): { return f; } end  var r = f(1);
PriorVariableProgram ==
    Program(<<Stmt_VarDecl("f", Num(5))>> \o SelfReferenceProgram.body)
\* func f(n): { return 7; } end  <CountDown>  var r = f(1);
PriorFunctionProgram ==
    Program(<<Func("f", <<"n">>, <<Ret(Num(7))>>)>> \o SelfCallProgram.body)
SelfPrograms ==
    {SelfCallProgram, SelfReferenceProgram, PriorVariableProgram, PriorFunctionProgram}

Programs ==
    AstPrograms \cup DivPrograms \cup ArgPrograms \cup ChainPrograms \cup AbortPrograms \cup AccessPrograms \cup ObjectPrograms \cup SubstringPrograms \cup ArithPrograms \cup AssignPrograms \cup ContinuePrograms \cup ForPrograms \cup SelfPrograms

\* lexemes of source texts
L_var == Lexeme("KwVar", "var")
L_func == Lexeme("KwFunc", "func")
L_return == Lexeme("KwReturn", "return")
L_end == Lexeme("KwEnd", "end")
L_eq == Lexeme("Equal", "=")
L_semi == Lexeme("Semicolon", ";")
L_lparen == Lexeme("LParen", "(")
L_rparen == Lexeme("RParen", ")")
L_lbrace == Lexeme("LBrace", "{")
L_rbrace == Lexeme("RBrace", "}")
L_colon == Lexeme("Colon", ":")
L_plus == Lexeme("Plus", "+")
L_slash == Lexeme("Slash", "/")
L_percent == Lexeme("Percent", "%")
Id(name) == Lexeme("Identifier", name)
IntLex(digits) == Lexeme("Int", digits)
FloatLex(digits) == Lexeme("Float", digits)

\* var r = a / b;   var r = a % b;
DividendLexemes == {IntLex("1"), FloatLex("1.0")}
ZeroLexemes == {IntLex("0"), FloatLex("0.0")}
DivLexemes == {L_slash, L_percent}
DivSource(a, op, b) == <<L_var, Id("r"), L_eq, a, op, b, L_semi>>
DivSources ==
    {DivSource(a, op, b) : a \in DividendLexemes, op \in DivLexemes, b \in ZeroLexemes}

\* var x = 10;
\* func makeAdder(): any: { func inner(n): any: { return x + n; } end return inner; } end
\* var adder = makeAdder();  var result = adder(5);
ClosureSource ==
    <<L_var, Id("x"), L_eq, IntLex("10"), L_semi,
      L_func, Id("makeAdder"), L_lparen, L_rparen, L_colon, Id("any"), L_colon, L_lbrace,
      L_func, Id("inner"), L_lparen, Id("n"), L_rparen, L_colon, Id("any"), L_colon, L_lbrace,
      L_return, Id("x"), L_plus, Id("n"), L_semi, L_rbrace, L_end,
      L_return, Id("inner"), L_semi, L_rbrace, L_end,
      L_var, Id("adder"), L_eq, Id("makeAdder"), L_lparen, L_rparen, L_semi,
      L_var, Id("result"), L_eq, Id("adder"), L_lparen, IntLex("5"), L_rparen, L_semi>>

\* func bad( { var b = 2; var c = 3;
BadSource ==
    <<L_func, Id("bad"), L_lparen, L_lbrace, L_var, Id("b"), L_eq, IntLex("2"), L_semi,
      L_var, Id("c"), L_eq, IntLex("3"), L_semi>>

Sources == DivSources \cup {ClosureSource, BadSource}

L_object == Lexeme("KwObject", "object")
VarX == <<L_var, Id("x"), L_eq, Id("x"), L_semi>>
StmtVarX == Stmt_VarDecl("x", Var("x"))
StmtX == Stmt_Expr(Var("x"))

\* sources with a malformed statement (a stray `=`) before well-formed ones, each
\* with the number of ParseErrors and the statements a pass that resumes at the
\* next `;` or statement keyword leaves
\* = var x = x;
RecoverAtVar == [src |-> <<L_eq>> \o VarX, errors |-> 1, body |-> <<StmtVarX>>]
\* = ; x;
RecoverAtSemi == [src |-> <<L_eq, L_semi, Id("x"), L_semi>>, errors |-> 1, body |-> <<StmtX>>]
\* = object O: { } end
RecoverAtObject ==
    [src |-> <<L_eq, L_object, Id("O"), L_colon, L_lbrace, L_rbrace, L_end>>,
     errors |-> 1, body |-> <<Stmt_ObjectDecl(ObjectDecl("O", <<>>))>>]
\* = ; = ; x;
RecoverTwice ==
    [src |-> <<L_eq, L_semi, L_eq, L_semi, Id("x"), L_semi>>, errors |-> 2, body |-> <<StmtX>>]
\* { = ; var x = x; } x;
RecoverInBlock ==
    [src |-> <<L_lbrace, L_eq, L_semi>> \o VarX \o <<L_rbrace, Id("x"), L_semi>>,
     errors |-> 1, body |-> <<Stmt_Block(<<StmtVarX>>), StmtX>>]
RecoveryCases == {RecoverAtVar, RecoverAtSemi, RecoverAtObject, RecoverTwice, RecoverInBlock}
RecoverySources == {c.src : c \in RecoveryCases}

\* every source text of at most MaxSrcLen lexemes over SourceAlphabet
SourceAlphabet == {L_var, Id("x"), L_eq, L_semi, L_lbrace, Unmatched}
ShortSources == UNION {[1..n -> SourceAlphabet] : n \in 0..MaxSrcLen}

L_comma == Lexeme("Comma", ",")
\* the lexemes of a parameter list
RECURSIVE ParamLexemes(_)
ParamLexemes(names) ==
    IF names = <<>> THEN <<>>
    ELSE IF Len(names) = 1 THEN <<Id(names[1])>>
    ELSE <<Id(names[1]), L_comma>> \o ParamLexemes(Tail(names))
ParamLists == {<<>>, <<"a">>, <<"a", "b">>}
\* func add(params): { return x; } end      (typed: func add(params): any: { ... } end)
FuncSource(typed, names) ==
    <<L_func, Id("add"), L_lparen>> \o ParamLexemes(names) \o <<L_rparen, L_colon>>
    \o (IF typed THEN <<Id("any"), L_colon>> ELSE <<>>)
    \o <<L_lbrace, L_return, Id("x"), L_semi, L_rbrace, L_end>>
FuncSources == {FuncSource(typed, names) : typed \in BOOLEAN, names \in ParamLists}

L_break == Lexeme("KwBreak", "break")
L_continue == Lexeme("KwContinue", "continue")
\* break;    continue;    { break; continue; }
\* each with the statements ast.rs has for it
BreakCase == [src |-> <<L_break, L_semi>>, body |-> <<Stmt_Break>>]
ContinueCase == [src |-> <<L_continue, L_semi>>, body |-> <<Stmt_Continue>>]
BlockBreakCase ==
    [src |-> <<L_lbrace, L_break, L_semi, L_continue, L_semi, L_rbrace>>,
     body |-> <<Stmt_Block(<<Stmt_Break, Stmt_Continue>>)>>]
LoopControlCases == {BreakCase, ContinueCase, BlockBreakCase}
LoopControlSources == {c.src : c \in LoopControlCases}

\* a <op1> b <op2> c ;   and   - a * b ;   not a == b ;   - f ( ) ;
\* a binary operator: its lexeme, the BinaryOp it parses to, and the rank of its
\* precedence level (1 lowest)
BinaryOps ==
    {[lex |-> Lexeme("KwOr", "or"), op |-> "Or", rank |-> 1],
     [lex |-> Lexeme("KwAnd", "and"), op |-> "And", rank |-> 2],
     [lex |-> Lexeme("EqualEqual", "=="), op |-> "Equal", rank |-> 3],
     [lex |-> Lexeme("BangEqual", "!="), op |-> "NotEqual", rank |-> 3],
     [lex |-> Lexeme("Less", "<"), op |-> "Less", rank |-> 4],
     [lex |-> Lexeme("GreaterEqual", ">="), op |-> "GreaterEqual", rank |-> 4],
     [lex |-> L_plus, op |-> "Add", rank |-> 5],
     [lex |-> Lexeme("Minus", "-"), op |-> "Sub", rank |-> 5],
     [lex |-> Lexeme("Star", "*"), op |-> "Mul", rank |-> 6],
     [lex |-> L_slash, op |-> "Div", rank |-> 6]}
TwoOpSource(o1, o2) == <<Id("a"), o1.lex, Id("b"), o2.lex, Id("c"), L_semi>>
NegateTimesSource == <<Lexeme("Minus", "-"), Id("a"), Lexeme("Star", "*"), Id("b"), L_semi>>
NotEqualSource == <<Lexeme("KwNot", "not"), Id("a"), Lexeme("EqualEqual", "=="), Id("b"), L_semi>>
NegateCallSource == <<Lexeme("Minus", "-"), Id("f"), L_lparen, L_rparen, L_semi>>
PrecedenceSources ==
    {TwoOpSource(o1, o2) : o1 \in BinaryOps, o2 \in BinaryOps}
    \cup {NegateTimesSource, NotEqualSource, NegateCallSource}

ParseSources ==
    ShortSources \cup Sources \cup RecoverySources \cup FuncSources
    \cup LoopControlSources \cup PrecedenceSources

(***************************************************************************)
(* The host of main.rs: run_file and run_demo parse a source and evaluate  *)
(* the Program with a fresh Interpreter; a test may hand eval_program a    *)
(* Program it built.                                                       *)
(***************************************************************************)
Init ==
    /\ env = Interpreter_new
    /\ out = <<>>
    /\ program = Program(<<>>)
    /\ pc = 1
    /\ status = "idle"
    /\ err = ""
    /\ runs = 0
    /\ src = <<>>
    /\ pos = 0
    /\ current = Token("Eof", "", 1, 1)
    /\ errors = <<>>
    /\ body = <<>>
    /\ pstatus = "idle"
    /\ consumeDef \in {"result", "panic"}

\* eval_program is entered with the Program p
Enter(p) ==
    /\ program' = p
    /\ pc' = 1
    /\ status' = IF Len(p.body) = 0 THEN "ok" ELSE "running"
    /\ err' = ""
    /\ runs' = runs + 1

LoadProgram(p) ==
    /\ status = "idle"
    /\ Enter(p)
    /\ UNCHANGED <<env, out>>
    /\ UNCHANGED parserVars

\* run_file, run_demo (31-48, 101-118): parse, then evaluate if the parse is Ok
LoadSource(s) ==
    /\ status = "idle"
    /\ LET r == parse_program(Parser_new(s, consumeDef))
       IN  /\ src' = s
           /\ pos' = r.P.pos
           /\ current' = r.P.current
           /\ errors' = r.errors
           /\ body' = r.program.body
           /\ pstatus' = r.result
           /\ IF r.result = "ok" THEN Enter(r.program)
              ELSE /\ status' = "parse_err"
                   /\ runs' = runs + 1
                   /\ UNCHANGED <<program, pc, err>>
    /\ UNCHANGED <<env, out, consumeDef>>

\* an eval_program whose loop goes on after a statement that failed
IgnoreError(ok, at, n) == IF at + 1 > n THEN "ok" ELSE "running"
\* the loop of eval_program after the statement at index `at` of n (463-466):
\* `?` returns the RuntimeError, the last statement ends the loop with Ok(())
eval_program_status(ok, at, n) ==
    IF ~ok THEN "err"
    ELSE IF at + 1 > n THEN "ok"
    ELSE "running"

\* one iteration of the loop of eval_program (463-465)
EvalTopStmt ==
    /\ status = "running"
    /\ LET r == Interpreter("eval_stmt", <<[env |-> env, out |-> out], program.body[pc]>>)
       IN  /\ env' = r.I.env
           /\ out' = r.I.out
           /\ status' = eval_program_status(r.ok, pc, Len(program.body))
           /\ pc' = IF status' = "err" THEN pc ELSE pc + 1
           /\ err' = IF status' = "err" THEN r.err ELSE ""
    /\ UNCHANGED <<program, runs>>
    /\ UNCHANGED parserVars

Next ==
    \/ \E p \in Programs : LoadProgram(p)
    \/ \E s \in Sources : LoadSource(s)
    \/ EvalTopStmt

Spec == Init /\ [][Next]_vars

(***************************************************************************)
(* The parser alone: Parser::new on a source, then parse_program one loop  *)
(* iteration at a time.                                                    *)
(***************************************************************************)
ParseInit == Init

\* Parser::new (30-33) and the entry of parse_program
NewParser(s) ==
    /\ pstatus = "idle"
    /\ LET P == Parser_new(s, consumeDef)
       IN  /\ src' = s
           /\ pos' = P.pos
           /\ current' = P.current
           /\ errors' = P.errors
    /\ body' = <<>>
    /\ pstatus' = "parsing"
    /\ UNCHANGED <<consumeDef>>
    /\ UNCHANGED interpVars

\* the Parser the variables hold
ThisParser ==
    [src |-> src, pos |-> pos, current |-> current, errors |-> errors,
     consumeDef |-> consumeDef]

\* one iteration of the loop of parse_program (63-69)
ParseProgramIter ==
    /\ pstatus = "parsing"
    /\ current.kind # "Eof"
    /\ LET n == parse_program_step(ThisParser, body)
       IN  /\ pos' = n.P.pos
           /\ current' = n.P.current
           /\ errors' = n.P.errors
           /\ body' = n.body
           /\ pstatus' = IF n.panic THEN "panic" ELSE "parsing"
    /\ UNCHANGED <<src, consumeDef>>
    /\ UNCHANGED interpVars

\* the exit of parse_program (71-75)
ParseProgramReturn ==
    /\ pstatus = "parsing"
    /\ current.kind = "Eof"
    /\ pstatus' = IF errors = <<>> THEN "ok" ELSE "errors"
    /\ body' = IF errors = <<>> THEN body ELSE <<>>
    /\ UNCHANGED <<src, pos, current, errors, consumeDef>>
    /\ UNCHANGED interpVars

ParseNext ==
    \/ \E s \in ParseSources : NewParser(s)
    \/ ParseProgramIter
    \/ ParseProgramReturn

ParseSpec == ParseInit /\ [][ParseNext]_vars

(***************************************************************************)
(* The REPL: one Interpreter, reused for the Program of each line (main.rs  *)
(* run_repl); the loop goes on whatever eval_program returned.             *)
(***************************************************************************)
MaxRuns == 3   \* lines handed to one Interpreter

\* var x = 1;   var x = 2;   var y = 3;   1 / 0;
\* func f(): { return 1 / 0; } end   f();
ReplLines ==
    {Program(<<Stmt_VarDecl("x", Num(1))>>),
     Program(<<Stmt_VarDecl("x", Num(2))>>),
     Program(<<Stmt_VarDecl("y", Num(3))>>),
     Program(<<Stmt_Expr(DivByZero)>>),
     Program(<<Func("f", <<>>, <<Ret(DivByZero)>>)>>),
     Program(<<Stmt_Expr(Call("f", <<>>))>>)}

ReplInit == Init

\* a line is read and parsed, and interp.eval_program(&program) begins (57-75)
ReplLine(p) ==
    /\ status \in {"idle", "ok", "err"}
    /\ runs < MaxRuns
    /\ Enter(p)
    /\ UNCHANGED <<env, out>>
    /\ UNCHANGED parserVars

ReplNext ==
    \/ \E p \in ReplLines : ReplLine(p)
    \/ EvalTopStmt

ReplSpec == ReplInit /\ [][ReplNext]_vars

(***************************************************************************)
(* Claims.                                                                 *)
(***************************************************************************)
Global(name) == get_global(env, name)

\* C1: a return executed at any nesting depth of blocks, if/elif/else branches and
\* loops inside a function body ends the call and is the value of the call; a body
\* that executes no return makes the call evaluate to Nil.
C1_ReturnUnwinds ==
    /\ \A kinds \in Nestings :
          (program = ReturnProgram(kinds, 1) /\ status # "running")
              => (status = "ok" /\ Global("r") = Some(VInt(1)))
    /\ \A stmts \in NoReturnBodies :
          (program = NoReturnProgram(stmts) /\ status # "running")
              => (status = "ok" /\ Global("r") = Some(VNil))


\* C2: a break inside a loop body, also when nested in blocks inside that body,
\* terminates only the innermost loop: the statements after the loop still run and
\* the function is not returned from.
C2_BreakEndsOnlyLoop ==
    /\ \A loop \in LoopKinds, d \in 0..MaxNest :
          (program = BreakProgram(loop, d) /\ status # "running")
              => (status = "ok" /\ Global("r") = Some(VInt(7)))
    /\ (program = NestedBreakProgram /\ status # "running")
          => (status = "ok" /\ Global("r") = Some(VInt(7)) /\ out = <<"1", "2">>)

\* the statement is a call of a user function bound in e
IsUserCall(s, e) ==
    /\ s.kind = "Expr"
    /\ s.expr.kind = "Call"
    /\ s.expr.callee.kind = "Ident"
    /\ IsSome(get(e, s.expr.callee.name))
    /\ Unwrap(get(e, s.expr.callee.name)).tag = "Function"

\* C3: after a user-function call finishes, by normal completion, by return or by a
\* RuntimeError raised in the body, the current Environment is the caller's
\* Environment from just before the call.
C3_CallRestoresEnv ==
    [][(status = "running" /\ IsUserCall(program.body[pc], env)) => env' = env]_vars

\* C4: a var declaration inside a block never changes a binding of an enclosing
\* scope, and after the block ends (normally, by return or by error) the current
\* Environment is the one from before the block.
C4_BlockScope ==
    [][/\ (status = "running" /\ program.body[pc].kind = "Block") => env' = env
       /\ (program' = BlockInFunctionProgram /\ status' # "running")
             => (status' = "ok" /\ get_global(env', "r") = Some(VInt(1)))]_vars

C4_Witness ==
    /\ program = BlockProgram(<<Stmt_Expr(DivByZero)>>)
    /\ status = "err"
    /\ Global("x") = Some(VInt(1))

\* C5: a function value returned out of the call that declared it still resolves
\* the variables of its enclosing scopes when it is called later: with x = 10 and an
\* inner function computing x + n, calling the returned function with 5 yields 15.
C5_ClosureSurvives ==
    \A x0 \in Captured, n0 \in Arguments :
        (program \in ClosureFamily(x0, n0) /\ status # "running")
            => (status = "ok" /\ Global("result") = Some(VInt(x0 + n0)))

C5_Witness ==
    /\ program = ClosureProgram(10, 5)
    /\ status = "ok"
    /\ Global("result") = Some(VInt(15))

\* C6: a call resolves the free variables of the body in the Environment captured
\* when the declaration was evaluated, never in the caller's Environment: a binding
\* that exists only in the caller's scope is not seen by the body.
C6_LexicalScope ==
    /\ \A g0 \in Captured :
          (program = SeesGlobalProgram(g0) /\ status # "running")
              => (status = "ok" /\ Global("r") = Some(VInt(g0)))
    /\ (program = CallerOnlyProgram /\ status # "running")
          => (status = "err" /\ err = "Undefined identifier 'y'")
    /\ (program = CallerShadowProgram /\ status # "running")
          => (status = "ok" /\ Global("r") = Some(VInt(1)))

C6_Witness ==
    /\ program = CallerOnlyProgram
    /\ status = "err"
    /\ pc = 3

\* C7: a closure and its defining scope share one Environment: a binding defined
\* or re-defined in the defining scope after the declaration is what every later
\* call observes, and sibling closures of one scope observe the same bindings.
C7_SharedEnvironment ==
    /\ \A redef \in Redefinitions :
          (program = RedefineProgram(redef) /\ status # "running")
              => (status = "ok" /\ Global("r") = Some(VInt(2)))
    /\ (program = LateDefineProgram /\ status # "running")
          => (status = "ok" /\ Global("r") = Some(VInt(2)))
    /\ (program = SiblingProgram /\ status # "running")
          => (status = "ok" /\ Global("ra") = Global("rb"))

\* C8: `false and E` and `true or E` never evaluate E: no side effect of E happens
\* and no RuntimeError of E is raised.
C8_ShortCircuit ==
    \A op \in {"And", "Or"}, effect \in Effects :
        (program = ShortCircuitProgram(op, effect) /\ status # "running")
            => (status = "ok" /\ out = <<>> /\ Global("r") = Some(VBool(op = "Or")))


DivisionErrors == {"division by zero", "modulo by zero"}

\* C9: a program containing `a / b` or `a % b` with b an integer or float zero and
\* a an Int or a Float always ends with a RuntimeError (division by zero or modulo
\* by zero), whether it is handed over as a Program or as source text.
C9_ZeroDivisorFails ==
    /\ (program \in DivPrograms /\ status # "running")
          => (status = "err" /\ err \in DivisionErrors)
    /\ (src \in DivSources /\ status # "running")
          => (status = "err" /\ err \in DivisionErrors)

\* C10: parse_program never panics, each iteration of its loop consumes at least
\* one token or reaches the end of the input, and what it returns is a Program or
\* a non-empty list of ParseErrors.
C10_ParseTotal ==
    [][/\ pstatus' # "panic"
       /\ pstatus' = "errors" => errors' # <<>>
       /\ (pstatus = "parsing" /\ pstatus' = "parsing")
             => (pos' > pos \/ current'.kind = "Eof")]_vars


\* the loop of parse_program has ended and parse_program is about to return
PassDone == pstatus = "parsing" /\ current.kind = "Eof"

\* C11: after a statement-level parse error the parser discards tokens up to a
\* statement keyword (var, func, object, if, while, for, return) or past a `;` and
\* resumes there: the well-formed statements after that point are parsed, each
\* later malformed statement adds its own ParseError, and an error inside a block
\* does not abandon the block.
C11_Recovery ==
    \A c \in RecoveryCases :
        (src = c.src /\ PassDone) => (Len(errors) = c.errors /\ body = c.body)


\* s is a prefix of t
IsPrefix(s, t) == Len(s) <= Len(t) /\ SubSeq(t, 1, Len(s)) = s

\* C12: whenever parse_program returns, it returns the Program if and only if no
\* ParseError was recorded during the pass, an error recorded and recovered from
\* inside a nested block included; otherwise it returns the non-empty list of all
\* the recorded errors and no AST.
C12_ProgramIffNoError ==
    [][/\ (pstatus = "parsing" /\ pstatus' = "parsing") => IsPrefix(errors, errors')
       /\ (pstatus = "parsing" /\ pstatus' = "ok") => (errors = <<>> /\ body' = body)
       /\ (pstatus = "parsing" /\ pstatus' = "errors")
             => (errors # <<>> /\ errors' = errors /\ body' = <<>>)
       /\ (src' = RecoverInBlock.src /\ pstatus' \in {"ok", "errors"})
             => (pstatus' = "errors" /\ Len(errors') = 1)]_vars

C12_Witness ==
    /\ src = RecoverInBlock.src
    /\ pstatus = "errors"
    /\ Len(errors) = 1
    /\ body = <<>>


\* parse_program has returned or panicked
PassEnded == pstatus \notin {"idle", "parsing"}

\* C13: `func NAME(params) : { ... } end`, without a return-type annotation, parses
\* without error into a FuncDecl holding the name, the parameter names in order
\* and the body block; so does the form with the `: TYPE` annotation.
C13_FuncDeclParses ==
    \A typed \in BOOLEAN, names \in ParamLists :
        (src = FuncSource(typed, names) /\ PassEnded)
            => (pstatus = "ok" /\ body = <<Func("add", names, <<Ret(Var("x"))>>)>>)


\* C14: the parser accepts bare `break ;` and `continue ;` statements (and `for`
\* loops) and produces the Stmt::Break, Stmt::Continue (and Stmt::For) nodes for
\* them; they are not parsed as expression statements.
C14_LoopStatementsParse ==
    \A c \in LoopControlCases :
        (src = c.src /\ PassEnded) => (pstatus = "ok" /\ body = c.body)


\* the place of the first byte of s that no lexer rule matches (0: there is none)
RECURSIVE FirstUnmatched(_, _)
FirstUnmatched(s, k) ==
    IF k > Len(s) THEN 0
    ELSE IF s[k] = Unmatched THEN k
    ELSE FirstUnmatched(s, k + 1)

\* C15: when the source holds a byte no lexer rule matches, the source is
\* truncated there: the parser never reads a token located after that byte, and
\* nothing located after it (no statement, no ParseError) is in the result.
C15_Truncation ==
    LET cut == FirstUnmatched(src, 1)
    IN  cut # 0 =>
            /\ pos <= cut
            /\ \A i \in DOMAIN errors : errors[i].column <= cut


C17_ParameterBinding ==
    \A c \in ArgCases :
        (program = ArgProgram(c.args) /\ status # "running")
            => /\ status = "ok"
               /\ Global("r1") = Some(c.a)
               /\ Global("r2") = Some(c.b)

C17_Witness ==
    /\ program = ArgProgram(<<Var("y"), Num(2), DivByZero>>)
    /\ status = "ok"
    /\ Global("r1") = Some(VInt(5))
    /\ Global("r2") = Some(VInt(2))


\* the innermost of the levels that declare x
Nearest(defs) == CHOOSE l \in defs : \A k \in defs : k <= l

\* C18: a lookup walks the chain of Environments from the innermost scope
\* outwards and yields the nearest binding of the name; a name bound nowhere in
\* the chain is the RuntimeError of an undefined identifier, not Nil.
C18_NearestBinding ==
    \A defs \in SUBSET (0..ChainDepth) :
        (program = ChainProgram(defs) /\ status # "running")
            => IF defs = {}
               THEN status = "err" /\ err = "Undefined identifier 'x'" /\ out = <<>>
               ELSE status = "ok" /\ out = <<ToString(Nearest(defs) + 1)>>

C18_Witness ==
    /\ program = ChainProgram({0, 1})
    /\ status = "ok"
    /\ out = <<"2">>


\* C19: the first RuntimeError aborts the whole evaluation: eval_program ends
\* with that error at the statement that raised it, and no later top-level
\* statement is evaluated (its binding is never made, its output never written).
C19_FirstErrorAborts ==
    \A failure \in Failures :
        program = AbortProgram(failure)
            => /\ pc <= 2
               /\ Global("b") = None
               /\ out = <<>>
               /\ status # "running" => (status = "err" /\ err # "" /\ Global("a") = Some(VInt(1)))

C19_Witness ==
    /\ program = AbortProgram(Stmt_Expr(Call("a", <<>>)))
    /\ status = "err"
    /\ err = "attempt to call non-function"
    /\ pc = 2
    /\ Global("b") = None


\* the top-level statement declares the name
Declares(stmt, name) ==
    \/ stmt.kind = "VarDecl" /\ stmt.name = name
    \/ stmt.kind = "FuncDecl" /\ stmt.func.name = name
ReplNames == {"x", "y", "f"}

\* C20: with one Interpreter reused for a sequence of eval_program calls, a
\* top-level binding made by an earlier call stays visible, with its latest
\* value, to the later calls and to get_global, whatever the calls in between
\* returned: a statement that does not declare the name leaves its binding as it
\* was, whether it succeeds or fails, and a var declaration that succeeds makes
\* its value the visible one.
C20_BindingsPersist ==
    [][status = "running" =>
        \A name \in ReplNames :
            /\ (IsSome(Global(name)) /\ ~Declares(program.body[pc], name))
                  => get_global(env', name) = Global(name)
            /\ (Declares(program.body[pc], name) /\ status' # "err")
                  => IsSome(get_global(env', name))]_vars

\* C21: member access t.name and index access t["name"] on a Table yield the
\* value stored under the key, and Nil, not an error, when the key is absent;
\* member or index access on a value that is no Table, and index access with an
\* index that is no String, is a RuntimeError.
C21_TableAccess ==
    \A c \in AccessCases :
        (program = AccessProgram(c.access) /\ status # "running")
            => IF c.ok
               THEN status = "ok" /\ Global("r") = Some(c.v)
               ELSE status = "err" /\ err = c.err /\ Global("r") = None

C21_Witness ==
    /\ program = AccessProgram(Expr_Index(Var("t"), Str("y")))
    /\ status = "ok"
    /\ Global("r") = Some(VInt(20))

\* the Table bound to Player
PlayerTable == Unwrap(Global("Player")).map

\* C22: evaluating an object declaration binds the object's name to a Table with
\* one entry per var member, holding the value of its initializer (Player.hp is
\* 100), one Function entry per func member, and no entry for an on member.
C22_ObjectTable ==
    \A names \in MemberSets :
        (program = ObjectProgram(names) /\ status # "running")
            => /\ status = "ok"
               /\ IsSome(Global("Player"))
               /\ Unwrap(Global("Player")).tag = "Table"
               /\ DOMAIN PlayerTable = names \ {"hit"}
               /\ "hp" \in names => PlayerTable["hp"] = VInt(100)
               /\ "heal" \in names =>
                     (PlayerTable["heal"].tag = "Function" /\ PlayerTable["heal"].decl = HealDecl)
               /\ Global("r") = Some(IF "hp" \in names THEN VInt(100) ELSE VNil)

C22_Witness ==
    /\ program = ObjectProgram({"hp", "heal", "hit"})
    /\ status = "ok"
    /\ DOMAIN PlayerTable = {"hp", "heal"}
    /\ Global("r") = Some(VInt(100))

\* i clamped into [0, n]
Clamp(i, n) == IF i < 0 THEN 0 ELSE IF i > n THEN n ELSE i
\* the characters of s after the first `from` and up to the `to`-th
Chars(s, from, to) == IF from >= to THEN "" ELSE SubSeq(s, from + 1, to)

\* C23: substring(s, start, end) with a String and two Ints never errors: both
\* bounds are clamped into [0, length of s], start to at most end, and the
\* result is the characters of s from the clamped start up to the clamped end;
\* substring("hello", -5, 100) is "hello", and start >= end gives "".
C23_SubstringClamps ==
    /\ \A s \in SubstringTexts, start \in SubstringBounds, end \in SubstringBounds :
          (program = SubstringProgram(s, start, end) /\ status # "running")
              => /\ status = "ok"
                 /\ Global("r") = Some(VString(Chars(s, Clamp(start, Len(s)), Clamp(end, Len(s)))))
                 /\ start >= end => Global("r") = Some(VString(""))
    /\ (program = SubstringProgram("hello", -5, 100) /\ status # "running")
          => Global("r") = Some(VString("hello"))

C23_Witness ==
    /\ program = SubstringProgram("hello", -5, 100)
    /\ status = "ok"
    /\ Global("r") = Some(VString("hello"))

\* the expression a <o1> b <o2> c is to parse to: the operator of the higher
\* level binds tighter, operators of one level group to the left
Grouped(o1, o2) ==
    IF o2.rank > o1.rank
    THEN [kind |-> "Binary", left |-> Var("a"), op |-> o1.op,
          right |-> [kind |-> "Binary", left |-> Var("b"), op |-> o2.op, right |-> Var("c")]]
    ELSE [kind |-> "Binary",
          left |-> [kind |-> "Binary", left |-> Var("a"), op |-> o1.op, right |-> Var("b")],
          op |-> o2.op, right |-> Var("c")]

\* C24: binary expressions are parsed with the precedence, lowest first, or, and,
\* equality, comparison, additive, multiplicative, unary, primary/postfix, and
\* every binary operator is left-associative: a - b - c is (a - b) - c,
\* a + b * c is a + (b * c), a or b and c is a or (b and c).
C24_Precedence ==
    /\ \A o1 \in BinaryOps, o2 \in BinaryOps :
          (src = TwoOpSource(o1, o2) /\ PassEnded)
              => (pstatus = "ok" /\ body = <<Stmt_Expr(Grouped(o1, o2))>>)
    /\ (src = NegateTimesSource /\ PassEnded)
          => (pstatus = "ok"
              /\ body = <<Stmt_Expr([kind |-> "Binary", left |-> Expr_Unary("Negate", Var("a")),
                                     op |-> "Mul", right |-> Var("b")])>>)
    /\ (src = NotEqualSource /\ PassEnded)
          => (pstatus = "ok"
              /\ body = <<Stmt_Expr([kind |-> "Binary", left |-> Expr_Unary("Not", Var("a")),
                                     op |-> "Equal", right |-> Var("b")])>>)
    /\ (src = NegateCallSource /\ PassEnded)
          => (pstatus = "ok" /\ body = <<Stmt_Expr(Expr_Unary("Negate", Call("f", <<>>)))>>)

C24_Witness ==
    /\ \E o1 \in BinaryOps, o2 \in BinaryOps :
          o1.op = "Add" /\ o2.op = "Mul" /\ src = TwoOpSource(o1, o2)
    /\ pstatus = "ok"
    /\ body = <<Stmt_Expr([kind |-> "Binary", left |-> Var("a"), op |-> "Add",
                           right |-> [kind |-> "Binary", left |-> Var("b"), op |-> "Mul",
                                      right |-> Var("c")]])>>

\* the operands of ArithProgram: the Ints, and the numbers as fractions
IntNames == {"i", "j"}
NumberNames == {"i", "j", "f"}
Numerator(x) == CASE x = "i" -> 6 [] x = "j" -> 3 [] x = "f" -> 3
Denominator(x) == IF x = "f" THEN 2 ELSE 1
\* x <op> y of two numbers, as the fraction <<numerator, denominator>>
Fraction(x, op, y) ==
    CASE op = "Add" -> <<Numerator(x) * Denominator(y) + Numerator(y) * Denominator(x),
                         Denominator(x) * Denominator(y)>>
      [] op = "Sub" -> <<Numerator(x) * Denominator(y) - Numerator(y) * Denominator(x),
                         Denominator(x) * Denominator(y)>>
      [] op = "Mul" -> <<Numerator(x) * Numerator(y), Denominator(x) * Denominator(y)>>
      [] op = "Div" -> <<Numerator(x) * Denominator(y), Denominator(x) * Numerator(y)>>
ArithVerb(op) ==
    CASE op = "Add" -> "add" [] op = "Sub" -> "subtract"
      [] op = "Mul" -> "multiply" [] op = "Div" -> "divide"

\* C25: for + - * /: two Ints give an Int, an Int mixed with a Float gives a
\* Float, String + String gives the concatenation, and every other combination of
\* operands (String + Int, Bool + Bool, Nil - Int, String * String, ...) is a
\* RuntimeError type error rather than a value.
C25_ArithmeticTypes ==
    \A x \in OperandNames, op \in ArithOps, y \in OperandNames :
        (program = ArithProgram(x, op, y) /\ status # "running")
            => CASE x \in IntNames /\ y \in IntNames ->
                      /\ status = "ok"
                      /\ Global("r") = Some(VInt(Fraction(x, op, y)[1] \div Fraction(x, op, y)[2]))
                 [] x \in NumberNames /\ y \in NumberNames /\ ~(x \in IntNames /\ y \in IntNames) ->
                      /\ status = "ok"
                      /\ Global("r") = Some(VFloat(Fraction(x, op, y)[1], Fraction(x, op, y)[2]))
                 [] x = "s" /\ y = "s" /\ op = "Add" ->
                      /\ status = "ok"
                      /\ Global("r") = Some(VString("abab"))
                 [] OTHER ->
                      /\ status = "err"
                      /\ err = "type error: cannot " \o ArithVerb(op) \o " the given operands"
                      /\ Global("r") = None

C25_Witness ==
    /\ program = ArithProgram("i", "Mul", "f")
    /\ status = "ok"
    /\ Global("r") = Some(VFloat(9, 1))

\* C26: an Assignment updates the existing variable: when the name is bound in
\* an enclosing scope, assigning to it inside an inner block or function body
\* changes that binding, so the new value is the one read after the inner scope
\* exits; a new binding is created only if the name is bound nowhere in the chain.
C26_AssignmentUpdates ==
    /\ \A scope \in AssignScopes :
          (program = AssignProgram(scope) /\ status # "running")
              => (status = "ok" /\ Global("x") = Some(VInt(2)) /\ Global("r") = Some(VInt(2)))
    /\ (program = AssignNewProgram /\ status # "running")
          => (status = "ok" /\ Global("q") = Some(VInt(3)) /\ Global("r") = Some(VInt(3)))

\* C27: a continue executed inside a loop body is handled by the enclosing loop:
\* the remaining statements of the current iteration's body are skipped and the
\* loop proceeds to its next counter value; continue never ends the loop or the
\* function, so both iterations print "a", none prints "b", and the statement
\* after the loop runs.
C27_ContinueSkipsRest ==
    \A form \in ContinueForms :
        (program = ContinueProgram(form) /\ status # "running")
            => (status = "ok" /\ out = <<"a", "a", "z">>)

\* C28: a for statement runs in a scope of its own that is discarded on every
\* exit: after the loop ends normally, by a return in the body or by a
\* RuntimeError raised in the body, the current Environment is the one that was
\* current before the loop and the loop variable is not bound in it; a step of
\* zero is a RuntimeError raised before the body runs and before a scope is entered.
C28_ForScopeDiscarded ==
    [][\A exit \in ForExits :
          (program = ForProgram(exit) /\ status = "running" /\ pc = 2)
              => /\ env' = env
                 /\ get_global(env', "i") = None
                 /\ (exit = "error") = (status' = "err" /\ err' = "division by zero")
                 /\ exit = "zero" =>
                       (status' = "err" /\ err' = "for loop step cannot be zero" /\ out' = out)]_vars

\* every Function value held in x carries a closure, and so does every Function
\* value held in that closure; x is an Environment (what = "env") or a Value
RECURSIVE Captured_(_, _)
Captured_(what, x) ==
    CASE what = "env" ->
            /\ \A name \in DOMAIN x.values : Captured_("value", x.values[name])
            /\ IsSome(x.parent) => Captured_("env", Unwrap(x.parent))
      [] x.tag = "Function" -> IsSome(x.closure) /\ Captured_("env", Unwrap(x.closure))
      [] x.tag = "Table" -> \A key \in DOMAIN x.map : Captured_("value", x.map[key])
      [] OTHER -> TRUE

\* C29: every Function value the interpreter creates (top-level and nested func
\* declarations, object methods) carries a captured closure Environment, so
\* eval_call always parents the call Environment to that closure and never takes
\* the caller-Environment fallback.
C29_AlwaysCaptured ==
    status \in {"idle", "running", "ok", "err", "parse_err"} => Captured_("env", env)

C29_Witness ==
    /\ program = ObjectProgram({"heal"})
    /\ status = "ok"
    /\ PlayerTable["heal"].tag = "Function"
    /\ IsSome(PlayerTable["heal"].closure)

\* the binding of f in the Environment the function bound to f has captured
CapturedSelf == get(Unwrap(Unwrap(Global("f")).closure), "f")

\* C30: the Environment a function declaration captures is taken before the
\* function's own name is bound, so the captured chain does not hold the
\* function's own binding: inside its body the name resolves only to a binding
\* that existed in an enclosing scope before the declaration, and otherwise a
\* self-referencing (recursive) call fails with the undefined-identifier error.
C30_NoSelfBinding ==
    /\ \A p \in {SelfCallProgram, SelfReferenceProgram} :
          /\ (program = p /\ status = "running" /\ pc = 2) => CapturedSelf = None
          /\ (program = p /\ status # "running")
                => (status = "err" /\ err = "Undefined identifier 'f'" /\ Global("r") = None)
    /\ (program = PriorVariableProgram /\ status # "running")
          => (status = "ok" /\ Global("r") = Some(VInt(5)))
    /\ (program = PriorFunctionProgram /\ status # "running")
          => (status = "ok" /\ Global("r") = Some(VInt(7)))

C30_Witness ==
    /\ program = SelfCallProgram
    /\ status = "err"
    /\ err = "Undefined identifier 'f'"
    /\ pc = 2
    /\ Global("r") = None

====
